---- MODULE Spec2Model ----
(***************************************************************************)
(* A model of the allude_sim RV32 instruction-set simulator: the trap      *)
(* unit, the architectural state, the decoder tables and registry, the     *)
(* executors, the core step loop and the simulation environment with its   *)
(* HTIF mailboxes and test runner.                                         *)
(*                                                                         *)
(* A 32-bit word (Rust u32) is held as the integer of its two's-complement *)
(* reading, in -2^31 .. 2^31-1: bit 31 set <=> the integer is negative.    *)
(* With floor division, bit i of a word w is (w \div 2^i) % 2 for i < 31.  *)
(***************************************************************************)
EXTENDS Integers, Sequences, FiniteSets, TLC

VARIABLES isa, x, f, csr, privilege, pc, state, mem, hist, steps, host_ops, sim, registry

vars == <<isa, x, f, csr, privilege, pc, state, mem, hist, steps, host_ops, sim, registry>>

(***************************************************************************)
(* 32-bit word arithmetic                                                  *)
(***************************************************************************)
\* Operators take their arguments by value, as the functions of the program
\* do: an argument that the body uses more than once is evaluated once and
\* bound before the body is evaluated.
Eval(S) == CHOOSE r \in S : TRUE
\* Let([v \in {e} |-> body]) is the body with v bound to the value of e,
\* the let of a strict language.
Let(binding_in) ==
    CHOOSE r \in { binding[CHOOSE v \in DOMAIN binding : TRUE] : binding \in {binding_in} } : TRUE

MinInt32 == -2147483647 - 1

\* The word whose upper and lower 16-bit halves are hi and lo.
W(hi_in, lo_in) == Eval({ (IF hi >= 32768 THEN (hi - 65536) * 65536 + lo ELSE hi * 65536 + lo) : hi \in {hi_in}, lo \in {lo_in} })

Hi(w) == (w \div 65536) % 65536
Lo(w) == w % 65536

IsWord(w_in) == Eval({ (w \in Int /\ w >= MinInt32 /\ w <= 2147483647) : w \in {w_in} })

\* 2^n for n in 0..30
Pow2(n) == 2 ^ n

\* Bit i (0..31) of word w.
Bit(w_in, i_in) == Eval({ (IF i = 31 THEN (IF w < 0 THEN 1 ELSE 0) ELSE (w \div Pow2(i)) % 2) : w \in {w_in}, i \in {i_in} })

\* Bitwise operations on 16-bit naturals: nibble by nibble through the truth
\* tables of the three operations on 4-bit values.
BitOf(a, i) == (a \div Pow2(i)) % 2
Nibbles == 0 .. 15
AndNibble ==
    [a \in Nibbles |-> [b \in Nibbles |->
        BitOf(a, 0) * BitOf(b, 0) + 2 * (BitOf(a, 1) * BitOf(b, 1))
        + 4 * (BitOf(a, 2) * BitOf(b, 2)) + 8 * (BitOf(a, 3) * BitOf(b, 3))]]
XorNibble ==
    [a \in Nibbles |-> [b \in Nibbles |->
        ((BitOf(a, 0) + BitOf(b, 0)) % 2) + 2 * ((BitOf(a, 1) + BitOf(b, 1)) % 2)
        + 4 * ((BitOf(a, 2) + BitOf(b, 2)) % 2) + 8 * ((BitOf(a, 3) + BitOf(b, 3)) % 2)]]
OrNibble == [a \in Nibbles |-> [b \in Nibbles |-> a + b - AndNibble[a][b]]]

Nibble(a, k) == (a \div Pow2(4 * k)) % 16
Nibblewise(table_in, a_in, b_in) == Eval({ (
    table[Nibble(a, 0)][Nibble(b, 0)] + 16 * table[Nibble(a, 1)][Nibble(b, 1)]
    + 256 * table[Nibble(a, 2)][Nibble(b, 2)] + 4096 * table[Nibble(a, 3)][Nibble(b, 3)]
    ) : table \in {table_in}, a \in {a_in}, b \in {b_in} })
And16(a, b) == Nibblewise(AndNibble, a, b)
Or16(a, b) == Nibblewise(OrNibble, a, b)
Xor16(a, b) == Nibblewise(XorNibble, a, b)

\* u32 &, |, ^, !
BitAnd(a_in, b_in) == Eval({ (W(And16(Hi(a), Hi(b)), And16(Lo(a), Lo(b)))) : a \in {a_in}, b \in {b_in} })
BitOr(a_in, b_in) == Eval({ (W(Or16(Hi(a), Hi(b)), Or16(Lo(a), Lo(b)))) : a \in {a_in}, b \in {b_in} })
BitXor(a_in, b_in) == Eval({ (W(Xor16(Hi(a), Hi(b)), Xor16(Lo(a), Lo(b)))) : a \in {a_in}, b \in {b_in} })
BitNot(a) == (-1) - a

\* u32::wrapping_add / wrapping_sub
wrapping_add(a_in, b_in) == Eval({ (
    Let([lo \in {Lo(a) + Lo(b)} |->
    Let([hi \in {Hi(a) + Hi(b) + (lo \div 65536)} |->
        W(hi % 65536, lo % 65536)])])
    ) : a \in {a_in}, b \in {b_in} })

wrapping_neg(a) == wrapping_add(BitNot(a), 1)
wrapping_sub(a, b) == wrapping_add(a, wrapping_neg(b))

\* Unsigned comparison of two words (u32 <).
Ltu(a_in, b_in) == Eval({ (IF (a < 0) = (b < 0) THEN a < b ELSE b < 0) : a \in {a_in}, b \in {b_in} })

\* u32 >> n (logical) and u32 << n, for n in 0..31
Shr(w_in, n_in) == Eval({ (
    IF n = 0 THEN w
    ELSE IF n = 31 THEN (IF w < 0 THEN 1 ELSE 0)
    ELSE IF w >= 0 THEN w \div Pow2(n)
    ELSE ((w - MinInt32) \div Pow2(n)) + Pow2(31 - n)
    ) : w \in {w_in}, n \in {n_in} })

Low31(w_in) == Eval({ (IF w < 0 THEN w - MinInt32 ELSE w) : w \in {w_in} })

Shl(w_in, n_in) == Eval({ (
    IF n = 0 THEN w
    ELSE Let([low \in {IF n = 1 THEN Low31(w) ELSE Low31(w) % Pow2(32 - n)} |->
         Let([top \in {low \div Pow2(31 - n)} |->
         Let([rest \in {low % Pow2(31 - n)} |->
             (IF top = 1 THEN MinInt32 ELSE 0) + (IF rest = 0 THEN 0 ELSE rest * Pow2(n))])])])
    ) : w \in {w_in}, n \in {n_in} })

\* (w as i32) >> n (arithmetic)
Sra(w_in, n_in) == Eval({ (
    IF n = 0 THEN w
    ELSE IF n = 31 THEN (IF w < 0 THEN -1 ELSE 0)
    ELSE w \div Pow2(n)
    ) : w \in {w_in}, n \in {n_in} })

(***************************************************************************)
(* Trap unit (cpu/trap.rs)                                                 *)
(***************************************************************************)
PrivilegeMode == {"User", "Supervisor", "_Reserved", "Machine"}

\* A plausible slip: Supervisor encoded as 0.
to_bits_no_supervisor(mode) == IF mode = "Machine" THEN 3 ELSE 0

\* PrivilegeMode::to_bits: the enum discriminant.
to_bits(mode_in) == Eval({ (
    CASE mode = "User" -> 0
      [] mode = "Supervisor" -> 1
      [] mode = "_Reserved" -> 2
      [] mode = "Machine" -> 3
    ) : mode \in {mode_in} })

\* A plausible slip: the reserved encoding decoded to the Reserved variant.
from_bits_reserved(bits_in) == Eval({ (
    CASE bits % 4 = 0 -> "User"
      [] bits % 4 = 1 -> "Supervisor"
      [] bits % 4 = 2 -> "_Reserved"
      [] OTHER -> "Machine"
    ) : bits \in {bits_in} })

\* PrivilegeMode::from_bits
from_bits(bits_in) == Eval({ (
    CASE bits % 4 = 0 -> "User"
      [] bits % 4 = 1 -> "Supervisor"
      [] bits % 4 = 3 -> "Machine"
      [] OTHER -> "Machine"
    ) : bits \in {bits_in} })

Exceptions ==
    {"InstructionAddressMisaligned", "InstructionAccessFault", "IllegalInstruction",
     "Breakpoint", "LoadAddressMisaligned", "LoadAccessFault",
     "StoreAddressMisaligned", "StoreAccessFault", "EcallFromU", "EcallFromS",
     "EcallFromM", "InstructionPageFault", "LoadPageFault", "StorePageFault"}

Interrupts ==
    {"UserSoftwareInterrupt", "SupervisorSoftwareInterrupt", "MachineSoftwareInterrupt",
     "UserTimerInterrupt", "SupervisorTimerInterrupt", "MachineTimerInterrupt",
     "UserExternalInterrupt", "SupervisorExternalInterrupt", "MachineExternalInterrupt"}

TrapCause == Exceptions \cup Interrupts

\* TrapCause::is_interrupt
is_interrupt(cause_in) == Eval({ (cause \in Interrupts) : cause \in {cause_in} })

\* TrapCause::code
code(cause_in) == Eval({ (
    CASE cause = "InstructionAddressMisaligned" -> 0
      [] cause = "InstructionAccessFault" -> 1
      [] cause = "IllegalInstruction" -> 2
      [] cause = "Breakpoint" -> 3
      [] cause = "LoadAddressMisaligned" -> 4
      [] cause = "LoadAccessFault" -> 5
      [] cause = "StoreAddressMisaligned" -> 6
      [] cause = "StoreAccessFault" -> 7
      [] cause = "EcallFromU" -> 8
      [] cause = "EcallFromS" -> 9
      [] cause = "EcallFromM" -> 11
      [] cause = "InstructionPageFault" -> 12
      [] cause = "LoadPageFault" -> 13
      [] cause = "StorePageFault" -> 15
      [] cause = "UserSoftwareInterrupt" -> 0
      [] cause = "SupervisorSoftwareInterrupt" -> 1
      [] cause = "MachineSoftwareInterrupt" -> 3
      [] cause = "UserTimerInterrupt" -> 4
      [] cause = "SupervisorTimerInterrupt" -> 5
      [] cause = "MachineTimerInterrupt" -> 7
      [] cause = "UserExternalInterrupt" -> 8
      [] cause = "SupervisorExternalInterrupt" -> 9
      [] cause = "MachineExternalInterrupt" -> 11
    ) : cause \in {cause_in} })

\* TrapCause::to_cause_value: bit 31 = interrupt, low bits = code
to_cause_value(cause_in) == Eval({ (
    Let([interrupt_bit \in {IF is_interrupt(cause) THEN MinInt32 ELSE 0} |->
        BitOr(interrupt_bit, code(cause))])
    ) : cause \in {cause_in} })

\* A plausible slip: every environment call reported as coming from Machine mode.
ecall_from_machine_only(mode) == "EcallFromM"

\* TrapCause::ecall_from
ecall_from(mode_in) == Eval({ (
    CASE mode = "User" -> "EcallFromU"
      [] mode = "Supervisor" -> "EcallFromS"
      [] mode = "Machine" -> "EcallFromM"
      [] mode = "_Reserved" -> "EcallFromM"
    ) : mode \in {mode_in} })

\* mstatus field positions and masks (mod mstatus)
MIE == 3
MPIE == 7
MPP == 11
SIE == 1
SPIE == 5
SPP == 8
MIE_MASK == Shl(1, MIE)
MPIE_MASK == Shl(1, MPIE)
MPP_MASK == Shl(3, MPP)
SIE_MASK == Shl(1, SIE)
SPIE_MASK == Shl(1, SPIE)
SPP_MASK == Shl(1, SPP)

read_mpp(mstatus) == BitAnd(Shr(mstatus, MPP), 3)
\* A plausible slip: the field written without keeping the other bits.
write_mpp_clobber(mstatus, mpp) == Shl(mpp % 4, MPP)

write_mpp(mstatus, mpp) == BitOr(BitAnd(mstatus, BitNot(MPP_MASK)), Shl(mpp % 4, MPP))
read_mie(mstatus) == BitAnd(mstatus, MIE_MASK) /= 0
read_mpie(mstatus) == BitAnd(mstatus, MPIE_MASK) /= 0

\* TvecMode::from_bits
TvecMode_from_bits(bits_in) == Eval({ (
    CASE bits % 4 = 0 -> "Direct"
      [] bits % 4 = 1 -> "Vectored"
      [] OTHER -> "Direct"
    ) : bits \in {bits_in} })

\* parse_tvec: (base, mode)
parse_tvec(tvec_in) == Eval({ ([base |-> BitAnd(tvec, BitNot(3)), mode |-> TvecMode_from_bits(tvec)]) : tvec \in {tvec_in} })

\* A plausible slip: vectored dispatch applied to exceptions as well.
calculate_trap_pc_all_vectored(tvec, cause) ==
    Let([t \in {parse_tvec(tvec)} |->
        IF t.mode = "Direct" THEN t.base ELSE wrapping_add(t.base, 4 * code(cause))])

\* calculate_trap_pc
calculate_trap_pc(tvec, cause_in) == Eval({ (
    Let([t \in {parse_tvec(tvec)} |->
        IF t.mode = "Direct" THEN t.base
        ELSE IF is_interrupt(cause) THEN wrapping_add(t.base, 4 * code(cause))
        ELSE t.base])
    ) : cause \in {cause_in} })

(***************************************************************************)
(* CSR addresses (cpu/csr_def.rs)                                          *)
(***************************************************************************)
CSR_FFLAGS == 1
CSR_FRM == 2
CSR_FCSR == 3
CSR_SSTATUS == 256
CSR_SEPC == 321
CSR_MSTATUS == 768
CSR_MEDELEG == 770
CSR_MIDELEG == 771
CSR_MTVEC == 773
CSR_MSCRATCH == 832
CSR_MEPC == 833
CSR_MCAUSE == 834
CSR_MTVAL == 835

\* The address sets of the CsrEntry tables; every reset value in them is 0.
BASE_CSRS == {\hC00, \hC01, \hC02, \hC80, \hC81, \hC82}
F_CSRS == {CSR_FFLAGS, CSR_FRM, CSR_FCSR}
M_CSRS ==
    {\hF11, \hF12, \hF13, \hF14, \hF15,
     CSR_MSTATUS, \h301, CSR_MEDELEG, CSR_MIDELEG, \h304, CSR_MTVEC, \h306, \h310,
     CSR_MSCRATCH, CSR_MEPC, CSR_MCAUSE, CSR_MTVAL, \h344, \h34A, \h34B}

(***************************************************************************)
(* Architectural state (cpu/status.rs, cpu.rs).  A machine m is the record *)
(* of the core's fields and the memory it is stepped against:              *)
(*   x          integer register array (GenericRegFile<32, u32, true>)     *)
(*   f          Option<FpRegFile>: [is_some, regs]                         *)
(*   csr        CsrBank.table, a map from the addresses it holds           *)
(*   privilege  Status.privilege                                           *)
(*   pc, state  CpuCore.pc, CpuCore.state                                  *)
(*   mem        FlatMemory: [base_addr, data]                              *)
(*   ev         history only: the trap entries made by the operation in    *)
(*              progress, each with the machine it was applied to          *)
(***************************************************************************)
Regs == 0 .. 31

Running == <<"Running">>
IllegalInstruction(raw) == <<"IllegalInstruction", raw>>
WaitForInterrupt == <<"WaitForInterrupt">>
Halted == <<"Halted">>

\* A plausible slip: the zero-hardwire test left out of the write path.
RegFile_write_no_hardwire(regs, reg, value) == [regs EXCEPT ![reg] = value]

\* GenericRegFile::read / write with ZERO_HARDWIRE = true
RegFile_read(regs, reg_in) == Eval({ (IF reg = 0 THEN 0 ELSE regs[reg]) : reg \in {reg_in} })
RegFile_write(regs_in, reg_in, value) == Eval({ (
                                   IF reg = 0 THEN regs ELSE [regs EXCEPT ![reg] = value]
    ) : regs \in {regs_in}, reg \in {reg_in} })

\* CpuCore::read_reg / write_reg (Status::int_read / int_write)
read_reg(m, reg) == RegFile_read(m.x, reg)
write_reg(m_in, reg, value) == Eval({ ([m EXCEPT !.x = RegFile_write(m.x, reg, value)]) : m \in {m_in} })

\* CpuCore::has_fp, read_fp, write_fp: FpRegFile has no hard-wired zero
has_fp(m) == m.f.is_some
read_fp(m_in, reg) == Eval({ (IF m.f.is_some THEN m.f.regs[reg] ELSE 0) : m \in {m_in} })
write_fp(m_in, reg, value) == Eval({ (IF m.f.is_some THEN [m EXCEPT !.f.regs[reg] = value] ELSE m) : m \in {m_in} })

\* CsrBank::read / write
CsrBank_read(table_in, addr_in) == Eval({ (
                             IF addr \in DOMAIN table THEN table[addr] ELSE 0
    ) : table \in {table_in}, addr \in {addr_in} })
CsrBank_write(table_in, addr_in, value_in) == Eval({ (
    [a \in (DOMAIN table) \cup {addr} |-> IF a = addr THEN value ELSE table[a]]
    ) : table \in {table_in}, addr \in {addr_in}, value \in {value_in} })

\* CpuCore::csr_read / csr_write
csr_read(m, addr) == CsrBank_read(m.csr, addr)
csr_write(m_in, addr, value) == Eval({ ([m EXCEPT !.csr = CsrBank_write(m.csr, addr, value)]) : m \in {m_in} })

set_pc(m, new_pc) == [m EXCEPT !.pc = new_pc]
set_privilege(m, mode) == [m EXCEPT !.privilege = mode]
set_state(m, st) == [m EXCEPT !.state = st]

\* What an observer can see of a machine: everything but the history field.
View(m_in) == Eval({ (
           [x |-> m.x, f |-> m.f, csr |-> m.csr, privilege |-> m.privilege,
            pc |-> m.pc, state |-> m.state, mem |-> m.mem]
    ) : m \in {m_in} })

\* A plausible slip: the trap entry honouring delegation by staying in the
\* current mode when medeleg/mideleg has the cause's bit set.
take_trap_at_delegating(m_in, cause_in, tval_in, epc_in) == Eval({ (
    Let([m1 \in {csr_write(m, CSR_MEPC, epc)} |->
    Let([m2 \in {csr_write(m1, CSR_MCAUSE, to_cause_value(cause))} |->
    Let([m3 \in {csr_write(m2, CSR_MTVAL, tval)} |->
    Let([mstatus \in {csr_read(m3, CSR_MSTATUS)} |->
    Let([s1 \in {IF read_mie(mstatus) THEN BitOr(mstatus, MPIE_MASK)
        ELSE BitAnd(mstatus, BitNot(MPIE_MASK))} |->
    Let([s2 \in {BitAnd(s1, BitNot(MIE_MASK))} |->
    Let([s3 \in {write_mpp(s2, to_bits(m3.privilege))} |->
    Let([m4 \in {csr_write(m3, CSR_MSTATUS, s3)} |->
    Let([deleg \in {csr_read(m, IF is_interrupt(cause) THEN CSR_MIDELEG ELSE CSR_MEDELEG)} |->
    Let([m5 \in {IF Bit(deleg, code(cause)) = 1 /\ m.privilege /= "Machine"
        THEN set_privilege(m4, "Supervisor") ELSE set_privilege(m4, "Machine")} |->
    Let([mtvec \in {csr_read(m5, CSR_MTVEC)} |->
    Let([m6 \in {set_pc(m5, calculate_trap_pc(mtvec, cause))} |->
        [m6 EXCEPT !.ev = Append(m.ev, [cause |-> cause, tval |-> tval, epc |-> epc,
                                         at |-> View(m), post |-> View(m6)])]
    ])])])])])])])])])])])])
    ) : m \in {m_in}, cause \in {cause_in}, tval \in {tval_in}, epc \in {epc_in} })

\* CpuCore::take_trap_at
take_trap_at(m_in, cause_in, tval_in, epc_in) == Eval({ (
    LET target_mode == "Machine" IN
    Let([m1 \in {csr_write(m, CSR_MEPC, epc)} |->
    Let([m2 \in {csr_write(m1, CSR_MCAUSE, to_cause_value(cause))} |->
    Let([m3 \in {csr_write(m2, CSR_MTVAL, tval)} |->
    Let([mstatus \in {csr_read(m3, CSR_MSTATUS)} |->
    Let([mie \in {read_mie(mstatus)} |->
    Let([s1 \in {IF mie THEN BitOr(mstatus, MPIE_MASK)
        ELSE BitAnd(mstatus, BitNot(MPIE_MASK))} |->
    Let([s2 \in {BitAnd(s1, BitNot(MIE_MASK))} |->
    Let([s3 \in {write_mpp(s2, to_bits(m3.privilege))} |->
    Let([m4 \in {csr_write(m3, CSR_MSTATUS, s3)} |->
    Let([m5 \in {set_privilege(m4, target_mode)} |->
    Let([mtvec \in {csr_read(m5, CSR_MTVEC)} |->
    Let([m6 \in {set_pc(m5, calculate_trap_pc(mtvec, cause))} |->
        [m6 EXCEPT !.ev = Append(m.ev, [cause |-> cause, tval |-> tval, epc |-> epc,
                                         at |-> View(m), post |-> View(m6)])]
    ])])])])])])])])])])])])
    ) : m \in {m_in}, cause \in {cause_in}, tval \in {tval_in}, epc \in {epc_in} })

\* CpuCore::take_trap: the current PC is the exception PC
take_trap(m_in, cause, tval) == Eval({ (take_trap_at(m, cause, tval, m.pc)) : m \in {m_in} })

(***************************************************************************)
(* Memory (memory.rs).  A MemResult is [ok |-> TRUE, val, mem] or          *)
(* [ok |-> FALSE, err, addr].                                              *)
(***************************************************************************)
Ok(val_in, mem_) == Eval({ ([ok |-> TRUE, val |-> val, mem |-> mem_, err |-> "", addr |-> 0]) : val \in {val_in} })
Err(err_in, addr_in, mem_) == Eval({ (
                        [ok |-> FALSE, val |-> 0, mem |-> mem_, err |-> err, addr |-> addr]
    ) : err \in {err_in}, addr \in {addr_in} })

MemLen(mem_) == Cardinality(DOMAIN mem_.data)

\* FlatMemory::ensure_aligned
ensure_aligned(addr_in, bytes_in) == Eval({ (
    \/ bytes = 1
    \/ bytes = 2 /\ addr % 2 = 0
    \/ bytes = 4 /\ addr % 4 = 0
    ) : addr \in {addr_in}, bytes \in {bytes_in} })

\* FlatMemory::bounds_check: the index of addr when [addr, addr+len) is inside,
\* -1 for OutOfRange.  checked_sub fails when addr is below base_addr (unsigned);
\* an offset of 2^31 or more is beyond every modelled region.
bounds_check(mem__in, addr_in, len) == Eval({ (
    IF Ltu(addr, mem_.base_addr) THEN -1
    ELSE Let([relative \in {wrapping_sub(addr, mem_.base_addr)} |->
             IF relative < 0 THEN -1
             ELSE IF relative > MemLen(mem_) - len THEN -1
             ELSE relative])
    ) : mem_ \in {mem__in}, addr \in {addr_in} })

\* u32::from_le_bytes / to_le_bytes
from_le_bytes2(b0, b1) == b0 + 256 * b1
from_le_bytes4(b0, b1, b2, b3) == W(b2 + 256 * b3, b0 + 256 * b1)
to_le_byte(value_in, i_in) == Eval({ (
                        (IF i < 2 THEN Lo(value) \div Pow2(8 * i) ELSE Hi(value) \div Pow2(8 * (i - 2))) % 256
    ) : value \in {value_in}, i \in {i_in} })

load8(mem__in, addr_in) == Eval({ (
    Let([idx \in {bounds_check(mem_, addr, 1)} |->
        IF idx < 0 THEN Err("OutOfRange", addr, mem_) ELSE Ok(mem_.data[idx], mem_)])
    ) : mem_ \in {mem__in}, addr \in {addr_in} })

load16(mem__in, addr_in) == Eval({ (
    IF ~ensure_aligned(addr, 2) THEN Err("Unaligned", addr, mem_)
    ELSE Let([idx \in {bounds_check(mem_, addr, 2)} |->
             IF idx < 0 THEN Err("OutOfRange", addr, mem_)
             ELSE Ok(from_le_bytes2(mem_.data[idx], mem_.data[idx + 1]), mem_)])
    ) : mem_ \in {mem__in}, addr \in {addr_in} })

\* A plausible slip: the word load without the alignment check.
load32_unaligned(mem__in, addr_in) == Eval({ (
    Let([idx \in {bounds_check(mem_, addr, 4)} |->
        IF idx < 0 THEN Err("OutOfRange", addr, mem_)
        ELSE Ok(from_le_bytes4(mem_.data[idx], mem_.data[idx + 1],
                               mem_.data[idx + 2], mem_.data[idx + 3]), mem_)])
    ) : mem_ \in {mem__in}, addr \in {addr_in} })

load32(mem__in, addr_in) == Eval({ (
    IF ~ensure_aligned(addr, 4) THEN Err("Unaligned", addr, mem_)
    ELSE Let([idx \in {bounds_check(mem_, addr, 4)} |->
             IF idx < 0 THEN Err("OutOfRange", addr, mem_)
             ELSE Ok(from_le_bytes4(mem_.data[idx], mem_.data[idx + 1],
                                    mem_.data[idx + 2], mem_.data[idx + 3]), mem_)])
    ) : mem_ \in {mem__in}, addr \in {addr_in} })

store8(mem__in, addr_in, value) == Eval({ (
    Let([idx \in {bounds_check(mem_, addr, 1)} |->
        IF idx < 0 THEN Err("OutOfRange", addr, mem_)
        ELSE Ok(0, [mem_ EXCEPT !.data[idx] = value % 256])])
    ) : mem_ \in {mem__in}, addr \in {addr_in} })

store16_big_endian(mem__in, addr_in, value_in) == Eval({ (
    IF ~ensure_aligned(addr, 2) THEN Err("Unaligned", addr, mem_)
    ELSE Let([idx \in {bounds_check(mem_, addr, 2)} |->
             IF idx < 0 THEN Err("OutOfRange", addr, mem_)
             ELSE Ok(0, [mem_ EXCEPT !.data[idx] = (value \div 256) % 256,
                                     !.data[idx + 1] = value % 256])])
    ) : mem_ \in {mem__in}, addr \in {addr_in}, value \in {value_in} })

store16(mem__in, addr_in, value_in) == Eval({ (
    IF ~ensure_aligned(addr, 2) THEN Err("Unaligned", addr, mem_)
    ELSE Let([idx \in {bounds_check(mem_, addr, 2)} |->
             IF idx < 0 THEN Err("OutOfRange", addr, mem_)
             ELSE Ok(0, [mem_ EXCEPT !.data[idx] = value % 256,
                                     !.data[idx + 1] = (value \div 256) % 256])])
    ) : mem_ \in {mem__in}, addr \in {addr_in}, value \in {value_in} })

store32(mem__in, addr_in, value_in) == Eval({ (
    IF ~ensure_aligned(addr, 4) THEN Err("Unaligned", addr, mem_)
    ELSE Let([idx \in {bounds_check(mem_, addr, 4)} |->
             IF idx < 0 THEN Err("OutOfRange", addr, mem_)
             ELSE Ok(0, [mem_ EXCEPT !.data[idx] = to_le_byte(value, 0),
                                     !.data[idx + 1] = to_le_byte(value, 1),
                                     !.data[idx + 2] = to_le_byte(value, 2),
                                     !.data[idx + 3] = to_le_byte(value, 3)])])
    ) : mem_ \in {mem__in}, addr \in {addr_in}, value \in {value_in} })

(***************************************************************************)
(* Instruction fields (isa/fields.rs, isa/rv32f.rs)                        *)
(***************************************************************************)
opcode(raw) == BitAnd(raw, \h7F)
rd(raw) == BitAnd(Shr(raw, 7), \h1F)
funct3(raw) == BitAnd(Shr(raw, 12), 7)
rs1(raw) == BitAnd(Shr(raw, 15), \h1F)
rs2(raw) == BitAnd(Shr(raw, 20), \h1F)
funct7(raw) == BitAnd(Shr(raw, 25), \h7F)
imm_i(raw) == Sra(raw, 20)
imm_s(raw_in) == Eval({ (
    Let([imm_11_5 \in {BitAnd(Shr(raw, 25), \h7F)} |->
    Let([imm_4_0 \in {BitAnd(Shr(raw, 7), \h1F)} |->
    Let([imm \in {BitOr(Shl(imm_11_5, 5), imm_4_0)} |->
        Sra(Shl(imm, 20), 20)])])])
    ) : raw \in {raw_in} })
imm_b(raw_in) == Eval({ (
    Let([imm_12 \in {BitAnd(Shr(raw, 31), 1)} |->
    Let([imm_10_5 \in {BitAnd(Shr(raw, 25), \h3F)} |->
    Let([imm_4_1 \in {BitAnd(Shr(raw, 8), \hF)} |->
    Let([imm_11 \in {BitAnd(Shr(raw, 7), 1)} |->
    Let([imm \in {BitOr(BitOr(Shl(imm_12, 12), Shl(imm_11, 11)),
              BitOr(Shl(imm_10_5, 5), Shl(imm_4_1, 1)))} |->
        Sra(Shl(imm, 19), 19)])])])])])
    ) : raw \in {raw_in} })
imm_u(raw) == BitAnd(raw, W(\hFFFF, \hF000))
imm_j(raw_in) == Eval({ (
    Let([imm_20 \in {BitAnd(Shr(raw, 31), 1)} |->
    Let([imm_10_1 \in {BitAnd(Shr(raw, 21), \h3FF)} |->
    Let([imm_11 \in {BitAnd(Shr(raw, 20), 1)} |->
    Let([imm_19_12 \in {BitAnd(Shr(raw, 12), \hFF)} |->
    Let([imm \in {BitOr(BitOr(Shl(imm_20, 20), Shl(imm_19_12, 12)),
              BitOr(Shl(imm_11, 11), Shl(imm_10_1, 1)))} |->
        Sra(Shl(imm, 11), 11)])])])])])
    ) : raw \in {raw_in} })
shamt(raw) == BitAnd(Shr(raw, 20), \h1F)
csr_addr(raw) == BitAnd(Shr(raw, 20), \hFFF)
rs3(raw) == BitAnd(Shr(raw, 27), \h1F)
rm(raw) == BitAnd(Shr(raw, 12), 7)

OP_LUI == 55
OP_AUIPC == 23
OP_JAL == 111
OP_JALR == 103
OP_BRANCH == 99
OP_LOAD == 3
OP_STORE == 35
OP_MISC_MEM == 15
OP_IMM == 19
OP_REG == 51
OP_SYSTEM == 115
OP_CUSTOM_0 == 11
OP_LOAD_FP == 7
OP_STORE_FP == 39
OP_MADD == 67
OP_MSUB == 71
OP_NMSUB == 75
OP_NMADD == 79
OP_FP == 83

(***************************************************************************)
(* Instruction definitions (isa/instr_def.rs).  An InstrDef's decode       *)
(* closure is named by the RvInstr variant it builds (op) and the fields   *)
(* it extracts (shape).                                                    *)
(***************************************************************************)
InstrDef(name_in, mask_in, match_val_in, op_in, shape_in) == Eval({ (
    [name |-> name, mask |-> mask, match_val |-> match_val, op |-> op, shape |-> shape]
    ) : name \in {name_in}, mask \in {mask_in}, match_val \in {match_val_in}, op \in {op_in}, shape \in {shape_in} })

\* A plausible slip: a definition matching on the opcode bits alone.
matches_opcode_only(def, raw) == BitAnd(raw, \h7F) = BitAnd(def.match_val, \h7F)

matches(def_in, raw) == Eval({ (BitAnd(raw, def.mask) = def.match_val) : def \in {def_in} })

conflicts_with(def_in, other_in) == Eval({ (
    Let([common_mask \in {BitAnd(def.mask, other.mask)} |->
        BitAnd(def.match_val, common_mask) = BitAnd(other.match_val, common_mask)])
    ) : def \in {def_in}, other \in {other_in} })

\* The decode closures of the instruction tables
build(op_in, shape_in, raw_in) == Eval({ (
    CASE shape = "rd_imm_u" -> [op |-> op, rd |-> rd(raw), imm |-> imm_u(raw)]
      [] shape = "rd_offset_j" -> [op |-> op, rd |-> rd(raw), offset |-> imm_j(raw)]
      [] shape = "rd_rs1_offset_i" -> [op |-> op, rd |-> rd(raw), rs1 |-> rs1(raw), offset |-> imm_i(raw)]
      [] shape = "rs1_rs2_offset_b" -> [op |-> op, rs1 |-> rs1(raw), rs2 |-> rs2(raw), offset |-> imm_b(raw)]
      [] shape = "rs1_rs2_offset_s" -> [op |-> op, rs1 |-> rs1(raw), rs2 |-> rs2(raw), offset |-> imm_s(raw)]
      [] shape = "rd_rs1_imm_i" -> [op |-> op, rd |-> rd(raw), rs1 |-> rs1(raw), imm |-> imm_i(raw)]
      [] shape = "rd_rs1_shamt" -> [op |-> op, rd |-> rd(raw), rs1 |-> rs1(raw), shamt |-> shamt(raw)]
      [] shape = "rd_rs1_rs2" -> [op |-> op, rd |-> rd(raw), rs1 |-> rs1(raw), rs2 |-> rs2(raw)]
      [] shape = "fence" ->
            Let([imm \in {BitAnd(Shr(raw, 20), \hFFF)} |->
                [op |-> op, pred |-> BitAnd(Shr(imm, 4), \hF), succ |-> BitAnd(imm, \hF),
                 fm |-> BitAnd(Shr(imm, 8), \hF)]])
      [] shape = "none" -> [op |-> op]
      [] shape = "rd_rs1_csr" -> [op |-> op, rd |-> rd(raw), rs1 |-> rs1(raw), csr |-> csr_addr(raw)]
      [] shape = "rd_zimm_csr" -> [op |-> op, rd |-> rd(raw), zimm |-> rs1(raw), csr |-> csr_addr(raw)]
      [] shape = "frd_rs1_offset_i" -> [op |-> op, frd |-> rd(raw), rs1 |-> rs1(raw), offset |-> imm_i(raw)]
      [] shape = "frs2_rs1_offset_s" -> [op |-> op, frs2 |-> rs2(raw), rs1 |-> rs1(raw), offset |-> imm_s(raw)]
      [] shape = "frd_frs1_frs2_frs3_rm" ->
            [op |-> op, frd |-> rd(raw), frs1 |-> rs1(raw), frs2 |-> rs2(raw),
             frs3 |-> rs3(raw), rm |-> rm(raw)]
      [] shape = "frd_frs1_frs2_rm" ->
            [op |-> op, frd |-> rd(raw), frs1 |-> rs1(raw), frs2 |-> rs2(raw), rm |-> rm(raw)]
      [] shape = "frd_frs1_rm" -> [op |-> op, frd |-> rd(raw), frs1 |-> rs1(raw), rm |-> rm(raw)]
      [] shape = "frd_frs1_frs2" -> [op |-> op, frd |-> rd(raw), frs1 |-> rs1(raw), frs2 |-> rs2(raw)]
      [] shape = "rd_frs1_frs2" -> [op |-> op, rd |-> rd(raw), frs1 |-> rs1(raw), frs2 |-> rs2(raw)]
      [] shape = "rd_frs1_rm" -> [op |-> op, rd |-> rd(raw), frs1 |-> rs1(raw), rm |-> rm(raw)]
      [] shape = "frd_rs1_rm" -> [op |-> op, frd |-> rd(raw), rs1 |-> rs1(raw), rm |-> rm(raw)]
      [] shape = "rd_frs1" -> [op |-> op, rd |-> rd(raw), frs1 |-> rs1(raw)]
      [] shape = "frd_rs1" -> [op |-> op, frd |-> rd(raw), rs1 |-> rs1(raw)]
    ) : op \in {op_in}, shape \in {shape_in}, raw \in {raw_in} })

decode_instr(def_in, raw_in) == Eval({ (
                          [raw |-> raw, instr |-> build(def.op, def.shape, raw)]
    ) : def \in {def_in}, raw \in {raw_in} })

R_TYPE_MASK == W(\hFE00, \h707F)
I_TYPE_MASK == W(\h0000, \h707F)
S_TYPE_MASK == W(\h0000, \h707F)
B_TYPE_MASK == W(\h0000, \h707F)
U_TYPE_MASK == W(\h0000, \h007F)
J_TYPE_MASK == W(\h0000, \h007F)
SHIFT_IMM_MASK == W(\hFC00, \h707F)
EXACT_MASK == W(\hFFFF, \hFFFF)
R4_TYPE_MASK == W(\h0600, \h007F)
FP_R_TYPE_MASK == W(\hFE00, \h007F)

r_match(f7, f3, op) == BitOr(BitOr(Shl(f7, 25), Shl(f3, 12)), op)
i_match(f3, op) == BitOr(Shl(f3, 12), op)
shift_match(funct6, f3, op) == BitOr(BitOr(Shl(funct6, 26), Shl(f3, 12)), op)
r4_match(fmt, op) == BitOr(Shl(fmt, 25), op)
fp_r_match(f7, op) == BitOr(Shl(f7, 25), op)

FADD_S == 0
FSUB_S == 4
FMUL_S == 8
FDIV_S == 12
FSQRT_S == 44
FSGNJ_S == 16
FMINMAX_S == 20
FCVT_W_S == 96
FMV_X_W == 112
FCMP_S == 80
FCVT_S_W == 104
FMV_W_X == 120

MRET_ENCODING == W(\h3020, \h0073)
SRET_ENCODING == W(\h1020, \h0073)
WFI_ENCODING == W(\h1050, \h0073)

RV32I_INSTRS ==
    << InstrDef("LUI", U_TYPE_MASK, OP_LUI, "Lui", "rd_imm_u"),
       InstrDef("AUIPC", U_TYPE_MASK, OP_AUIPC, "Auipc", "rd_imm_u"),
       InstrDef("JAL", J_TYPE_MASK, OP_JAL, "Jal", "rd_offset_j"),
       InstrDef("JALR", I_TYPE_MASK, i_match(0, OP_JALR), "Jalr", "rd_rs1_offset_i"),
       InstrDef("BEQ", B_TYPE_MASK, i_match(0, OP_BRANCH), "Beq", "rs1_rs2_offset_b"),
       InstrDef("BNE", B_TYPE_MASK, i_match(1, OP_BRANCH), "Bne", "rs1_rs2_offset_b"),
       InstrDef("BLT", B_TYPE_MASK, i_match(4, OP_BRANCH), "Blt", "rs1_rs2_offset_b"),
       InstrDef("BGE", B_TYPE_MASK, i_match(5, OP_BRANCH), "Bge", "rs1_rs2_offset_b"),
       InstrDef("BLTU", B_TYPE_MASK, i_match(6, OP_BRANCH), "Bltu", "rs1_rs2_offset_b"),
       InstrDef("BGEU", B_TYPE_MASK, i_match(7, OP_BRANCH), "Bgeu", "rs1_rs2_offset_b"),
       InstrDef("LB", I_TYPE_MASK, i_match(0, OP_LOAD), "Lb", "rd_rs1_offset_i"),
       InstrDef("LH", I_TYPE_MASK, i_match(1, OP_LOAD), "Lh", "rd_rs1_offset_i"),
       InstrDef("LW", I_TYPE_MASK, i_match(2, OP_LOAD), "Lw", "rd_rs1_offset_i"),
       InstrDef("LBU", I_TYPE_MASK, i_match(4, OP_LOAD), "Lbu", "rd_rs1_offset_i"),
       InstrDef("LHU", I_TYPE_MASK, i_match(5, OP_LOAD), "Lhu", "rd_rs1_offset_i"),
       InstrDef("SB", S_TYPE_MASK, i_match(0, OP_STORE), "Sb", "rs1_rs2_offset_s"),
       InstrDef("SH", S_TYPE_MASK, i_match(1, OP_STORE), "Sh", "rs1_rs2_offset_s"),
       InstrDef("SW", S_TYPE_MASK, i_match(2, OP_STORE), "Sw", "rs1_rs2_offset_s"),
       InstrDef("ADDI", I_TYPE_MASK, i_match(0, OP_IMM), "Addi", "rd_rs1_imm_i"),
       InstrDef("SLTI", I_TYPE_MASK, i_match(2, OP_IMM), "Slti", "rd_rs1_imm_i"),
       InstrDef("SLTIU", I_TYPE_MASK, i_match(3, OP_IMM), "Sltiu", "rd_rs1_imm_i"),
       InstrDef("XORI", I_TYPE_MASK, i_match(4, OP_IMM), "Xori", "rd_rs1_imm_i"),
       InstrDef("ORI", I_TYPE_MASK, i_match(6, OP_IMM), "Ori", "rd_rs1_imm_i"),
       InstrDef("ANDI", I_TYPE_MASK, i_match(7, OP_IMM), "Andi", "rd_rs1_imm_i"),
       InstrDef("SLLI", SHIFT_IMM_MASK, shift_match(0, 1, OP_IMM), "Slli", "rd_rs1_shamt"),
       InstrDef("SRLI", SHIFT_IMM_MASK, shift_match(0, 5, OP_IMM), "Srli", "rd_rs1_shamt"),
       InstrDef("SRAI", SHIFT_IMM_MASK, shift_match(16, 5, OP_IMM), "Srai", "rd_rs1_shamt"),
       InstrDef("ADD", R_TYPE_MASK, r_match(0, 0, OP_REG), "Add", "rd_rs1_rs2"),
       InstrDef("SUB", R_TYPE_MASK, r_match(32, 0, OP_REG), "Sub", "rd_rs1_rs2"),
       InstrDef("SLL", R_TYPE_MASK, r_match(0, 1, OP_REG), "Sll", "rd_rs1_rs2"),
       InstrDef("SLT", R_TYPE_MASK, r_match(0, 2, OP_REG), "Slt", "rd_rs1_rs2"),
       InstrDef("SLTU", R_TYPE_MASK, r_match(0, 3, OP_REG), "Sltu", "rd_rs1_rs2"),
       InstrDef("XOR", R_TYPE_MASK, r_match(0, 4, OP_REG), "Xor", "rd_rs1_rs2"),
       InstrDef("SRL", R_TYPE_MASK, r_match(0, 5, OP_REG), "Srl", "rd_rs1_rs2"),
       InstrDef("SRA", R_TYPE_MASK, r_match(32, 5, OP_REG), "Sra", "rd_rs1_rs2"),
       InstrDef("OR", R_TYPE_MASK, r_match(0, 6, OP_REG), "Or", "rd_rs1_rs2"),
       InstrDef("AND", R_TYPE_MASK, r_match(0, 7, OP_REG), "And", "rd_rs1_rs2"),
       InstrDef("FENCE", I_TYPE_MASK, i_match(0, OP_MISC_MEM), "Fence", "fence"),
       InstrDef("FENCE.I", I_TYPE_MASK, i_match(1, OP_MISC_MEM), "FenceI", "none"),
       InstrDef("ECALL", EXACT_MASK, W(\h0000, \h0073), "Ecall", "none"),
       InstrDef("EBREAK", EXACT_MASK, W(\h0010, \h0073), "Ebreak", "none") >>

RV32M_INSTRS ==
    << InstrDef("MUL", R_TYPE_MASK, r_match(1, 0, OP_REG), "Mul", "rd_rs1_rs2"),
       InstrDef("MULH", R_TYPE_MASK, r_match(1, 1, OP_REG), "Mulh", "rd_rs1_rs2"),
       InstrDef("MULHSU", R_TYPE_MASK, r_match(1, 2, OP_REG), "Mulhsu", "rd_rs1_rs2"),
       InstrDef("MULHU", R_TYPE_MASK, r_match(1, 3, OP_REG), "Mulhu", "rd_rs1_rs2"),
       InstrDef("DIV", R_TYPE_MASK, r_match(1, 4, OP_REG), "Div", "rd_rs1_rs2"),
       InstrDef("DIVU", R_TYPE_MASK, r_match(1, 5, OP_REG), "Divu", "rd_rs1_rs2"),
       InstrDef("REM", R_TYPE_MASK, r_match(1, 6, OP_REG), "Rem", "rd_rs1_rs2"),
       InstrDef("REMU", R_TYPE_MASK, r_match(1, 7, OP_REG), "Remu", "rd_rs1_rs2") >>

RV32F_INSTRS ==
    << InstrDef("FLW", W(\h0000, \h707F), BitOr(Shl(2, 12), OP_LOAD_FP), "Flw", "frd_rs1_offset_i"),
       InstrDef("FSW", W(\h0000, \h707F), BitOr(Shl(2, 12), OP_STORE_FP), "Fsw", "frs2_rs1_offset_s"),
       InstrDef("FMADD.S", R4_TYPE_MASK, r4_match(0, OP_MADD), "FmaddS", "frd_frs1_frs2_frs3_rm"),
       InstrDef("FMSUB.S", R4_TYPE_MASK, r4_match(0, OP_MSUB), "FmsubS", "frd_frs1_frs2_frs3_rm"),
       InstrDef("FNMSUB.S", R4_TYPE_MASK, r4_match(0, OP_NMSUB), "FnmsubS", "frd_frs1_frs2_frs3_rm"),
       InstrDef("FNMADD.S", R4_TYPE_MASK, r4_match(0, OP_NMADD), "FnmaddS", "frd_frs1_frs2_frs3_rm"),
       InstrDef("FADD.S", FP_R_TYPE_MASK, fp_r_match(FADD_S, OP_FP), "FaddS", "frd_frs1_frs2_rm"),
       InstrDef("FSUB.S", FP_R_TYPE_MASK, fp_r_match(FSUB_S, OP_FP), "FsubS", "frd_frs1_frs2_rm"),
       InstrDef("FMUL.S", FP_R_TYPE_MASK, fp_r_match(FMUL_S, OP_FP), "FmulS", "frd_frs1_frs2_rm"),
       InstrDef("FDIV.S", FP_R_TYPE_MASK, fp_r_match(FDIV_S, OP_FP), "FdivS", "frd_frs1_frs2_rm"),
       InstrDef("FSQRT.S", W(\hFFF0, \h007F), fp_r_match(FSQRT_S, OP_FP), "FsqrtS", "frd_frs1_rm"),
       InstrDef("FSGNJ.S", W(\hFE00, \h707F), BitOr(fp_r_match(FSGNJ_S, OP_FP), Shl(0, 12)), "FsgnjS", "frd_frs1_frs2"),
       InstrDef("FSGNJN.S", W(\hFE00, \h707F), BitOr(fp_r_match(FSGNJ_S, OP_FP), Shl(1, 12)), "FsgnjnS", "frd_frs1_frs2"),
       InstrDef("FSGNJX.S", W(\hFE00, \h707F), BitOr(fp_r_match(FSGNJ_S, OP_FP), Shl(2, 12)), "FsgnjxS", "frd_frs1_frs2"),
       InstrDef("FMIN.S", W(\hFE00, \h707F), BitOr(fp_r_match(FMINMAX_S, OP_FP), Shl(0, 12)), "FminS", "frd_frs1_frs2"),
       InstrDef("FMAX.S", W(\hFE00, \h707F), BitOr(fp_r_match(FMINMAX_S, OP_FP), Shl(1, 12)), "FmaxS", "frd_frs1_frs2"),
       InstrDef("FEQ.S", W(\hFE00, \h707F), BitOr(fp_r_match(FCMP_S, OP_FP), Shl(2, 12)), "FeqS", "rd_frs1_frs2"),
       InstrDef("FLT.S", W(\hFE00, \h707F), BitOr(fp_r_match(FCMP_S, OP_FP), Shl(1, 12)), "FltS", "rd_frs1_frs2"),
       InstrDef("FLE.S", W(\hFE00, \h707F), BitOr(fp_r_match(FCMP_S, OP_FP), Shl(0, 12)), "FleS", "rd_frs1_frs2"),
       InstrDef("FCVT.W.S", W(\hFFF0, \h007F), fp_r_match(FCVT_W_S, OP_FP), "FcvtWS", "rd_frs1_rm"),
       InstrDef("FCVT.WU.S", W(\hFFF0, \h007F), BitOr(fp_r_match(FCVT_W_S, OP_FP), Shl(1, 20)), "FcvtWuS", "rd_frs1_rm"),
       InstrDef("FCVT.S.W", W(\hFFF0, \h007F), fp_r_match(FCVT_S_W, OP_FP), "FcvtSW", "frd_rs1_rm"),
       InstrDef("FCVT.S.WU", W(\hFFF0, \h007F), BitOr(fp_r_match(FCVT_S_W, OP_FP), Shl(1, 20)), "FcvtSWu", "frd_rs1_rm"),
       InstrDef("FMV.X.W", W(\hFFF0, \h707F), BitOr(fp_r_match(FMV_X_W, OP_FP), Shl(0, 12)), "FmvXW", "rd_frs1"),
       InstrDef("FCLASS.S", W(\hFFF0, \h707F), BitOr(fp_r_match(FMV_X_W, OP_FP), Shl(1, 12)), "FclassS", "rd_frs1"),
       InstrDef("FMV.W.X", W(\hFFF0, \h707F), BitOr(fp_r_match(FMV_W_X, OP_FP), Shl(0, 12)), "FmvWX", "frd_rs1") >>

ZICSR_INSTRS ==
    << InstrDef("CSRRW", I_TYPE_MASK, i_match(1, OP_SYSTEM), "Csrrw", "rd_rs1_csr"),
       InstrDef("CSRRS", I_TYPE_MASK, i_match(2, OP_SYSTEM), "Csrrs", "rd_rs1_csr"),
       InstrDef("CSRRC", I_TYPE_MASK, i_match(3, OP_SYSTEM), "Csrrc", "rd_rs1_csr"),
       InstrDef("CSRRWI", I_TYPE_MASK, i_match(5, OP_SYSTEM), "Csrrwi", "rd_zimm_csr"),
       InstrDef("CSRRSI", I_TYPE_MASK, i_match(6, OP_SYSTEM), "Csrrsi", "rd_zimm_csr"),
       InstrDef("CSRRCI", I_TYPE_MASK, i_match(7, OP_SYSTEM), "Csrrci", "rd_zimm_csr") >>

PRIV_INSTRS ==
    << InstrDef("MRET", EXACT_MASK, MRET_ENCODING, "Mret", "none"),
       InstrDef("SRET", EXACT_MASK, SRET_ENCODING, "Sret", "none"),
       InstrDef("WFI", EXACT_MASK, WFI_ENCODING, "Wfi", "none") >>

(***************************************************************************)
(* Decoders and the registry (isa/instr_def.rs, isa/decoder.rs,            *)
(* isa/config.rs).  A decoder is [name, instrs, opcodes, allow_overlap];   *)
(* opcodes is [is_some, list].  An Option<DecodedInstr> is                 *)
(* [is_some, decoded].                                                     *)
(***************************************************************************)
Some(v_in) == Eval({ ([is_some |-> TRUE, v |-> v]) : v \in {v_in} })
None == [is_some |-> FALSE, v |-> 0]

TableDrivenDecoder(name_in, instrs_in, opcodes_in, allow_overlap_in) == Eval({ (
    [name |-> name, instrs |-> instrs, opcodes |-> opcodes, allow_overlap |-> allow_overlap]
    ) : name \in {name_in}, instrs \in {instrs_in}, opcodes \in {opcodes_in}, allow_overlap \in {allow_overlap_in} })

RV32I_OPCODES ==
    << OP_LUI, OP_AUIPC, OP_JAL, OP_JALR, OP_BRANCH,
       OP_LOAD, OP_STORE, OP_MISC_MEM, OP_IMM, OP_REG, OP_SYSTEM >>
RV32F_OPCODES == << OP_LOAD_FP, OP_STORE_FP, OP_MADD, OP_MSUB, OP_NMSUB, OP_NMADD, OP_FP >>

\* A plausible slip: the opcode list of RV32I leaving out SYSTEM, the opcode
\* of its ECALL and EBREAK entries.
RV32I_DECODER_without_system ==
    TableDrivenDecoder("RV32I", RV32I_INSTRS,
                       Some(<< OP_LUI, OP_AUIPC, OP_JAL, OP_JALR, OP_BRANCH,
                               OP_LOAD, OP_STORE, OP_MISC_MEM, OP_IMM, OP_REG >>), TRUE)

RV32I_DECODER == TableDrivenDecoder("RV32I", RV32I_INSTRS, Some(RV32I_OPCODES), TRUE)
RV32M_DECODER == TableDrivenDecoder("RV32M", RV32M_INSTRS, Some(<< OP_REG >>), TRUE)
RV32F_DECODER == TableDrivenDecoder("RV32F", RV32F_INSTRS, Some(RV32F_OPCODES), FALSE)
ZICSR_DECODER == TableDrivenDecoder("Zicsr", ZICSR_INSTRS, Some(<< OP_SYSTEM >>), TRUE)
PRIV_DECODER == TableDrivenDecoder("Priv", PRIV_INSTRS, Some(<< OP_SYSTEM >>), TRUE)

\* The custom decoder of isa/tests.rs: every word of opcode custom-0 is a
\* Custom instruction; it keeps the trait's default allow_opcode_overlap.
CustomDecoder == TableDrivenDecoder("Custom", << >>, Some(<< OP_CUSTOM_0 >>), FALSE)
CustomDecoder_decode(raw_in) == Eval({ (
    IF BitAnd(raw, \h7F) = OP_CUSTOM_0
    THEN Some([raw |-> raw,
               instr |-> [op |-> "Custom", extension |-> "test", opcode |-> OP_CUSTOM_0,
                          raw |-> raw, fields |-> [rd |-> rd(raw), rs1 |-> rs1(raw)]]])
    ELSE None
    ) : raw \in {raw_in} })

\* TableDrivenDecoder::decode: the first definition of the table that matches
FirstMatch(instrs_in, raw_in) == Eval({ (
    IF \A i \in 1 .. Len(instrs) : ~matches(instrs[i], raw) THEN 0
    ELSE CHOOSE i \in 1 .. Len(instrs) :
            matches(instrs[i], raw) /\ \A j \in 1 .. i - 1 : ~matches(instrs[j], raw)
    ) : instrs \in {instrs_in}, raw \in {raw_in} })
Table_decode(instrs, i_in, raw) == Eval({ (IF i = 0 THEN None ELSE Some(decode_instr(instrs[i], raw))) : i \in {i_in} })

\* InstrDecoder::decode
Decoder_decode(decoder_in, raw_in) == Eval({ (
    IF decoder.name = "Custom" THEN CustomDecoder_decode(raw)
    ELSE Table_decode(decoder.instrs, FirstMatch(decoder.instrs, raw), raw)
    ) : decoder \in {decoder_in}, raw \in {raw_in} })

\* DecoderRegistry::new.  opcode_map holds 0-based indices into decoders.
DecoderRegistry_new == [decoders |-> << >>, opcode_map |-> [op \in 0 .. 127 |-> << >>]]

SeqElems(q_in) == Eval({ ({q[i] : i \in 1 .. Len(q)}) : q \in {q_in} })

\* A plausible slip: a shared opcode refused only for the decoders already
\* there, the new decoder's own flag not consulted.
opcode_blocked_existing_only(reg_in, decoder, op_in) == Eval({ (
    /\ op < 128
    /\ reg.opcode_map[op] /= << >>
    /\ \E i \in SeqElems(reg.opcode_map[op]) : ~reg.decoders[i + 1].allow_overlap
    ) : reg \in {reg_in}, op \in {op_in} })

\* DecoderRegistry::register: the test made for one opcode of the list
opcode_blocked(reg_in, decoder_in, op_in) == Eval({ (
    /\ op < 128
    /\ reg.opcode_map[op] /= << >>
    /\ \/ \E i \in SeqElems(reg.opcode_map[op]) : ~reg.decoders[i + 1].allow_overlap
       \/ ~decoder.allow_overlap
    ) : reg \in {reg_in}, decoder \in {decoder_in}, op \in {op_in} })

\* A plausible slip: a wildcard refused only for the decoders already there.
wildcard_blocked_existing_only(reg_in, decoder) == Eval({ (
    \E op \in 0 .. 127 :
        \E i \in SeqElems(reg.opcode_map[op]) : ~reg.decoders[i + 1].allow_overlap
    ) : reg \in {reg_in} })

\* DecoderRegistry::register: the test made for a decoder without a list
wildcard_blocked(reg_in, decoder_in) == Eval({ (
    \/ \E op \in 0 .. 127 :
            \E i \in SeqElems(reg.opcode_map[op]) : ~reg.decoders[i + 1].allow_overlap
    \/ ~decoder.allow_overlap
    ) : reg \in {reg_in}, decoder \in {decoder_in} })

\* The conflict test of DecoderRegistry::register
register_conflict(reg_in, decoder_in) == Eval({ (
    IF decoder.opcodes.is_some
    THEN \E k \in 1 .. Len(decoder.opcodes.v) : opcode_blocked(reg, decoder, decoder.opcodes.v[k])
    ELSE wildcard_blocked(reg, decoder)
    ) : reg \in {reg_in}, decoder \in {decoder_in} })

\* The error of DecoderRegistry::register: the opcode its message names,
\* the one at which the loop over the list returned, or the wildcard message
register_error(reg_in, decoder_in) == Eval({ (
    IF decoder.opcodes.is_some
    THEN [wildcard |-> FALSE,
          op |-> decoder.opcodes.v[
                     CHOOSE k \in 1 .. Len(decoder.opcodes.v) :
                         /\ opcode_blocked(reg, decoder, decoder.opcodes.v[k])
                         /\ \A j \in 1 .. k - 1 :
                                ~opcode_blocked(reg, decoder, decoder.opcodes.v[j])],
          name |-> decoder.name]
    ELSE [wildcard |-> TRUE, op |-> 0, name |-> decoder.name]
    ) : reg \in {reg_in}, decoder \in {decoder_in} })
NoError == [wildcard |-> FALSE, op |-> 0, name |-> ""]

\* A plausible slip: the decoder pushed before the conflict test.
register_push_first(reg_in, decoder_in) == Eval({ (
    [ok |-> ~register_conflict(reg, decoder),
     err |-> IF register_conflict(reg, decoder) THEN register_error(reg, decoder) ELSE NoError,
     reg |-> [reg EXCEPT !.decoders = Append(@, decoder)]]
    ) : reg \in {reg_in}, decoder \in {decoder_in} })

\* DecoderRegistry::register: [ok, err, reg]
register(reg_in, decoder_in) == Eval({ (
    Let([idx \in {Len(reg.decoders)} |->
        IF register_conflict(reg, decoder)
        THEN [ok |-> FALSE, err |-> register_error(reg, decoder), reg |-> reg]
        ELSE [ok |-> TRUE, err |-> NoError,
              reg |-> [decoders |-> Append(reg.decoders, decoder),
                       opcode_map |->
                           [op \in 0 .. 127 |->
                               IF decoder.opcodes.is_some
                               THEN IF op \in SeqElems(decoder.opcodes.v)
                                    THEN Append(reg.opcode_map[op], idx)
                                    ELSE reg.opcode_map[op]
                               ELSE Append(reg.opcode_map[op], idx)]]]])
    ) : reg \in {reg_in}, decoder \in {decoder_in} })

\* The bucket walk of DecoderRegistry::decode
RECURSIVE Bucket_decode(_, _, _, _)
Bucket_decode(reg_in, bucket_in, k_in, raw_in) == Eval({ (
    IF k > Len(bucket) THEN [raw |-> raw, instr |-> [op |-> "Illegal", raw |-> raw]]
    ELSE Let([decoded \in {Decoder_decode(reg.decoders[bucket[k] + 1], raw)} |->
             IF decoded.is_some THEN decoded.v ELSE Bucket_decode(reg, bucket, k + 1, raw)])
    ) : reg \in {reg_in}, bucket \in {bucket_in}, k \in {k_in}, raw \in {raw_in} })

\* A plausible slip: the bucket walked from the decoder registered last.
Registry_decode_last_first(reg_in, raw_in) == Eval({ (
    Let([bucket \in {reg.opcode_map[BitAnd(raw, \h7F)]} |->
        Bucket_decode(reg, [k \in 1 .. Len(bucket) |-> bucket[Len(bucket) + 1 - k]], 1, raw)])
    ) : reg \in {reg_in}, raw \in {raw_in} })

\* DecoderRegistry::decode
Registry_decode(reg_in, raw_in) == Eval({ (
    Let([op \in {BitAnd(raw, \h7F)} |->
        Bucket_decode(reg, reg.opcode_map[op], 1, raw)])
    ) : reg \in {reg_in}, raw \in {raw_in} })

\* IsaConfig::build for a set of enabled extensions: RV32I, then M, F, Zicsr,
\* Priv, then the custom decoders, each registration expected to succeed.
Extensions == {"M", "F", "Zicsr", "Priv", "Custom"}
BuildOrder == << [ext |-> "M", decoder |-> RV32M_DECODER], [ext |-> "F", decoder |-> RV32F_DECODER],
                 [ext |-> "Zicsr", decoder |-> ZICSR_DECODER], [ext |-> "Priv", decoder |-> PRIV_DECODER],
                 [ext |-> "Custom", decoder |-> CustomDecoder] >>
RECURSIVE build_from(_, _, _)
build_from(reg_in, exts_in, k_in) == Eval({ (
    IF k > Len(BuildOrder) THEN reg
    ELSE IF BuildOrder[k].ext \in exts
         THEN build_from(register(reg, BuildOrder[k].decoder).reg, exts, k + 1)
         ELSE build_from(reg, exts, k + 1)
    ) : reg \in {reg_in}, exts \in {exts_in}, k \in {k_in} })
IsaConfig_build(exts) == build_from(register(DecoderRegistry_new, RV32I_DECODER).reg, exts, 1)

\* IsaConfig::build_unchecked for a set of enabled extensions: RV32I, then M,
\* F, Zicsr, then the custom decoders, the result of each registration
\* dropped.
UncheckedOrder ==
    << [ext |-> "M", decoder |-> RV32M_DECODER], [ext |-> "F", decoder |-> RV32F_DECODER],
       [ext |-> "Zicsr", decoder |-> ZICSR_DECODER], [ext |-> "Custom", decoder |-> CustomDecoder] >>
RECURSIVE build_unchecked_from(_, _, _)
build_unchecked_from(reg_in, exts_in, k_in) == Eval({ (
    IF k > Len(UncheckedOrder) THEN reg
    ELSE IF UncheckedOrder[k].ext \in exts
         THEN build_unchecked_from(register(reg, UncheckedOrder[k].decoder).reg, exts, k + 1)
         ELSE build_unchecked_from(reg, exts, k + 1)
    ) : reg \in {reg_in}, exts \in {exts_in}, k \in {k_in} })
IsaConfig_build_unchecked(exts) ==
    build_unchecked_from(register(DecoderRegistry_new, RV32I_DECODER).reg, exts, 1)

\* The signatures an IsaConfig holds: those of RV32I, then those of each
\* enabled extension, each the name, mask and match value of a table entry
\* with the extension it came from
ExtensionTables ==
    << [ext |-> "RV32I", instrs |-> RV32I_INSTRS], [ext |-> "M", instrs |-> RV32M_INSTRS],
       [ext |-> "F", instrs |-> RV32F_INSTRS], [ext |-> "Zicsr", instrs |-> ZICSR_INSTRS],
       [ext |-> "Priv", instrs |-> PRIV_INSTRS] >>
signatures(exts_in) == Eval({ (
    UNION { { [extension |-> ExtensionTables[t].ext, name |-> ExtensionTables[t].instrs[i].name,
               mask |-> ExtensionTables[t].instrs[i].mask,
               match_val |-> ExtensionTables[t].instrs[i].match_val, at |-> << t, i >>] :
              i \in 1 .. Len(ExtensionTables[t].instrs) } :
            t \in { u \in 1 .. Len(ExtensionTables) : u = 1 \/ ExtensionTables[u].ext \in exts } }
    ) : exts \in {exts_in} })

\* A plausible slip: two signatures taken to conflict when they share the
\* opcode bits.
detect_conflicts_by_opcode(exts_in) == Eval({ (
    { pair \in signatures(exts) \X signatures(exts) :
         /\ pair[1].at[1] < pair[2].at[1]
         /\ pair[1].extension /= pair[2].extension
         /\ BitAnd(pair[1].match_val, \h7F) = BitAnd(pair[2].match_val, \h7F) }
    ) : exts \in {exts_in} })

\* IsaConfig::detect_conflicts: the pairs of signatures of distinct
\* extensions, the first before the second, that conflict
detect_conflicts(exts_in) == Eval({ (
    { pair \in signatures(exts) \X signatures(exts) :
         /\ pair[1].at[1] < pair[2].at[1]
         /\ pair[1].extension /= pair[2].extension
         /\ conflicts_with(pair[1], pair[2]) }
    ) : exts \in {exts_in} })

\* DecoderRegistry::with_rv32i
with_rv32i == register(DecoderRegistry_new, RV32I_DECODER).reg

(***************************************************************************)
(* Memory results in the core.  The source tree's cpu.rs predates the      *)
(* MemResult interface of memory.rs: CpuCore::mem_result, mem_result_unit  *)
(* and MemAccessType are used by the executors but not defined in it, so   *)
(* they follow the written behaviour: a failed access traps with           *)
(* Load/StoreAddressMisaligned (alignment) or Load/StoreAccessFault (range)*)
(* with tval the faulting address and epc the instruction's address.       *)
(***************************************************************************)
MemFaultCause(err, access_in) == Eval({ (
    IF err = "Unaligned"
    THEN (IF access = "Load" THEN "LoadAddressMisaligned" ELSE "StoreAddressMisaligned")
    ELSE (IF access = "Load" THEN "LoadAccessFault" ELSE "StoreAccessFault")
    ) : access \in {access_in} })

\* CpuCore::mem_result: Option<T> as [is_some, v], with the machine after it.
\* res.mem is the memory the access left, which a failed access did not touch.
mem_result(m_in, res_in, access, current_pc) == Eval({ (
    IF res.ok
    THEN [is_some |-> TRUE, v |-> res.val, m |-> [m EXCEPT !.mem = res.mem]]
    ELSE [is_some |-> FALSE, v |-> 0,
          m |-> take_trap_at([m EXCEPT !.mem = res.mem], MemFaultCause(res.err, access),
                             res.addr, current_pc)]
    ) : m \in {m_in}, res \in {res_in} })

\* CpuCore::mem_result_unit: the bool is is_some
mem_result_unit(m, res, access, current_pc) == mem_result(m, res, access, current_pc)

(***************************************************************************)
(* Integer executor (cpu/exu/rv32i.rs).  An executor returns               *)
(* [handled, m]: whether it claimed the instruction and the machine after. *)
(***************************************************************************)
Handled(m_in) == Eval({ ([handled |-> TRUE, m |-> m]) : m \in {m_in} })
NotHandled(m_in) == Eval({ ([handled |-> FALSE, m |-> m]) : m \in {m_in} })

sext8(v_in) == Eval({ (IF v >= 128 THEN v - 256 ELSE v) : v \in {v_in} })
sext16(v_in) == Eval({ (IF v >= 32768 THEN v - 65536 ELSE v) : v \in {v_in} })

\* The per-byte loop of load_halfword / load_word: load8 of bytes addr+i ..
\* addr+n-1 in order, stopping at the first failure; mem_result then sees
\* either the bytes or that first failure.
RECURSIVE load8_loop(_, _, _, _)
load8_loop(mem__in, addr_in, i_in, n_in) == Eval({ (
    IF i = n THEN Ok(<< >>, mem_)
    ELSE Let([r \in {load8(mem_, wrapping_add(addr, i))} |->
             IF ~r.ok THEN r
             ELSE Let([rest \in {load8_loop(mem_, addr, i + 1, n)} |->
                      IF ~rest.ok THEN rest ELSE Ok(<< r.val >> \o rest.val, mem_)])])
    ) : mem_ \in {mem__in}, addr \in {addr_in}, i \in {i_in}, n \in {n_in} })
load_bytes(m_in, addr, i, n, current_pc) == Eval({ (mem_result(m, load8_loop(m.mem, addr, i, n), "Load", current_pc)) : m \in {m_in} })

load_halfword(m_in, addr_in, signed_in, current_pc_in) == Eval({ (
    IF addr % 2 = 0
    THEN Let([r \in {mem_result(m, load16(m.mem, addr), "Load", current_pc)} |->
             IF ~r.is_some THEN r
             ELSE [r EXCEPT !.v = IF signed THEN sext16(r.v) ELSE r.v]])
    ELSE Let([r \in {load_bytes(m, addr, 0, 2, current_pc)} |->
             IF ~r.is_some THEN r
             ELSE Let([raw \in {from_le_bytes2(r.v[1], r.v[2])} |->
                      [r EXCEPT !.v = IF signed THEN sext16(raw) ELSE raw]])])
    ) : m \in {m_in}, addr \in {addr_in}, signed \in {signed_in}, current_pc \in {current_pc_in} })

\* A plausible slip: the byte-split word load assembling its bytes most
\* significant first.
load_word_big_endian(m_in, addr_in, current_pc_in) == Eval({ (
    IF addr % 4 = 0
    THEN mem_result(m, load32(m.mem, addr), "Load", current_pc)
    ELSE Let([r \in {load_bytes(m, addr, 0, 4, current_pc)} |->
             IF ~r.is_some THEN r
             ELSE [r EXCEPT !.v = from_le_bytes4(r.v[4], r.v[3], r.v[2], r.v[1])]])
    ) : m \in {m_in}, addr \in {addr_in}, current_pc \in {current_pc_in} })

load_word(m_in, addr_in, current_pc_in) == Eval({ (
    IF addr % 4 = 0
    THEN mem_result(m, load32(m.mem, addr), "Load", current_pc)
    ELSE Let([r \in {load_bytes(m, addr, 0, 4, current_pc)} |->
             IF ~r.is_some THEN r
             ELSE [r EXCEPT !.v = from_le_bytes4(r.v[1], r.v[2], r.v[3], r.v[4])]])
    ) : m \in {m_in}, addr \in {addr_in}, current_pc \in {current_pc_in} })

\* The per-byte loop of store_halfword / store_word: store8 of the bytes in
\* order, each into the memory the one before left, stopping at the first
\* failure; mem_result_unit then sees the final memory or that first failure.
RECURSIVE store8_loop(_, _, _, _, _)
store8_loop(mem__in, addr_in, value_in, i_in, n_in) == Eval({ (
    IF i = n THEN Ok(0, mem_)
    ELSE Let([r \in {store8(mem_, wrapping_add(addr, i), to_le_byte(value, i))} |->
             IF ~r.ok THEN r ELSE store8_loop(r.mem, addr, value, i + 1, n)])
    ) : mem_ \in {mem__in}, addr \in {addr_in}, value \in {value_in}, i \in {i_in}, n \in {n_in} })
store_bytes(m_in, addr, value, i, n, current_pc) == Eval({ (
    mem_result_unit(m, store8_loop(m.mem, addr, value, i, n), "Store", current_pc)
    ) : m \in {m_in} })

store_halfword(m_in, addr_in, value_in, current_pc_in) == Eval({ (
    IF addr % 2 = 0
    THEN mem_result_unit(m, store16(m.mem, addr, value), "Store", current_pc)
    ELSE store_bytes(m, addr, value, 0, 2, current_pc)
    ) : m \in {m_in}, addr \in {addr_in}, value \in {value_in}, current_pc \in {current_pc_in} })

\* A plausible slip: the word store handing a misaligned address to store32
\* instead of splitting it into bytes.
store_word_aligned_only(m_in, addr, value, current_pc) == Eval({ (
    mem_result_unit(m, store32(m.mem, addr, value), "Store", current_pc)
    ) : m \in {m_in} })

store_word(m_in, addr_in, value_in, current_pc_in) == Eval({ (
    IF addr % 4 = 0
    THEN mem_result_unit(m, store32(m.mem, addr, value), "Store", current_pc)
    ELSE store_bytes(m, addr, value, 0, 4, current_pc)
    ) : m \in {m_in}, addr \in {addr_in}, value \in {value_in}, current_pc \in {current_pc_in} })

B2I(b) == IF b THEN 1 ELSE 0

\* A plausible slip: JALR keeping bit 1 clear as well as bit 0.
jalr_target_word_aligned(base, offset) == BitAnd(wrapping_add(base, offset), BitNot(3))

\* The target computation of JALR
jalr_target(base, offset) == BitAnd(wrapping_add(base, offset), BitNot(1))

\* A conditional branch: the PC is set only when the branch is taken
branch(m_in, instr, current_pc, taken) == Eval({ (Handled(IF taken THEN set_pc(m, wrapping_add(current_pc, instr.offset)) ELSE m)) : m \in {m_in} })

\* The end of a load: rd is written unless the access trapped
load(instr, r_in) == Eval({ (Handled(IF r.is_some THEN write_reg(r.m, instr.rd, r.v) ELSE r.m)) : r \in {r_in} })

rv32i_execute(m_in, instr_in, current_pc_in) == Eval({ (
    LET op == instr.op IN
    Let([a \in {IF "rs1" \in DOMAIN instr THEN read_reg(m, instr.rs1) ELSE 0} |->
    Let([b \in {IF "rs2" \in DOMAIN instr THEN read_reg(m, instr.rs2) ELSE 0} |->
        CASE op = "Add" -> Handled(write_reg(m, instr.rd, wrapping_add(a, b)))
          [] op = "Sub" -> Handled(write_reg(m, instr.rd, wrapping_sub(a, b)))
          [] op = "And" -> Handled(write_reg(m, instr.rd, BitAnd(a, b)))
          [] op = "Or" -> Handled(write_reg(m, instr.rd, BitOr(a, b)))
          [] op = "Xor" -> Handled(write_reg(m, instr.rd, BitXor(a, b)))
          [] op = "Slt" -> Handled(write_reg(m, instr.rd, B2I(a < b)))
          [] op = "Sltu" -> Handled(write_reg(m, instr.rd, B2I(Ltu(a, b))))
          [] op = "Sll" -> Handled(write_reg(m, instr.rd, Shl(a, BitAnd(b, \h1F))))
          [] op = "Srl" -> Handled(write_reg(m, instr.rd, Shr(a, BitAnd(b, \h1F))))
          [] op = "Sra" -> Handled(write_reg(m, instr.rd, Sra(a, BitAnd(b, \h1F))))
          [] op = "Addi" -> Handled(write_reg(m, instr.rd, wrapping_add(a, instr.imm)))
          [] op = "Andi" -> Handled(write_reg(m, instr.rd, BitAnd(a, instr.imm)))
          [] op = "Ori" -> Handled(write_reg(m, instr.rd, BitOr(a, instr.imm)))
          [] op = "Xori" -> Handled(write_reg(m, instr.rd, BitXor(a, instr.imm)))
          [] op = "Slti" -> Handled(write_reg(m, instr.rd, B2I(a < instr.imm)))
          [] op = "Sltiu" -> Handled(write_reg(m, instr.rd, B2I(Ltu(a, instr.imm))))
          [] op = "Slli" -> Handled(write_reg(m, instr.rd, Shl(a, instr.shamt)))
          [] op = "Srli" -> Handled(write_reg(m, instr.rd, Shr(a, instr.shamt)))
          [] op = "Srai" -> Handled(write_reg(m, instr.rd, Sra(a, instr.shamt)))
          [] op = "Lb" ->
                Let([r \in {mem_result(m, load8(m.mem, wrapping_add(a, instr.offset)), "Load", current_pc)} |->
                    load(instr, [r EXCEPT !.v = sext8(r.v)])])
          [] op = "Lh" -> load(instr, load_halfword(m, wrapping_add(a, instr.offset), TRUE, current_pc))
          [] op = "Lw" -> load(instr, load_word(m, wrapping_add(a, instr.offset), current_pc))
          [] op = "Lbu" ->
                load(instr, mem_result(m, load8(m.mem, wrapping_add(a, instr.offset)), "Load", current_pc))
          [] op = "Lhu" -> load(instr, load_halfword(m, wrapping_add(a, instr.offset), FALSE, current_pc))
          [] op = "Sb" ->
                Handled(mem_result_unit(m, store8(m.mem, wrapping_add(a, instr.offset), Lo(b) % 256),
                                        "Store", current_pc).m)
          [] op = "Sh" -> Handled(store_halfword(m, wrapping_add(a, instr.offset), Lo(b), current_pc).m)
          [] op = "Sw" -> Handled(store_word(m, wrapping_add(a, instr.offset), b, current_pc).m)
          [] op = "Lui" -> Handled(write_reg(m, instr.rd, instr.imm))
          [] op = "Auipc" -> Handled(write_reg(m, instr.rd, wrapping_add(current_pc, instr.imm)))
          [] op = "Jal" ->
                Handled(set_pc(write_reg(m, instr.rd, m.pc), wrapping_add(current_pc, instr.offset)))
          [] op = "Jalr" ->
                LET return_addr == m.pc IN
                Let([target \in {jalr_target(a, instr.offset)} |->
                    Handled(set_pc(write_reg(m, instr.rd, return_addr), target))])
          [] op = "Beq" -> branch(m, instr, current_pc, a = b)
          [] op = "Bne" -> branch(m, instr, current_pc, a /= b)
          [] op = "Blt" -> branch(m, instr, current_pc, a < b)
          [] op = "Bge" -> branch(m, instr, current_pc, a >= b)
          [] op = "Bltu" -> branch(m, instr, current_pc, Ltu(a, b))
          [] op = "Bgeu" -> branch(m, instr, current_pc, ~Ltu(a, b))
          [] op = "Ecall" -> Handled(take_trap_at(m, ecall_from(m.privilege), 0, current_pc))
          [] op = "Ebreak" -> Handled(take_trap_at(m, "Breakpoint", current_pc, current_pc))
          [] op = "Fence" -> Handled(m)
          [] op = "FenceI" -> Handled(m)
          [] OTHER -> NotHandled(m)])])
    ) : m \in {m_in}, instr \in {instr_in}, current_pc \in {current_pc_in} })

(***************************************************************************)
(* Multiply/divide executor (cpu/exu/rv32m.rs).  Products are formed on    *)
(* 8-bit limbs so that no intermediate value leaves 32 bits.               *)
(***************************************************************************)
Limb(w, i) == to_le_byte(w, i)

\* Column k of the schoolbook product of two 4-limb numbers
MulTerm(a, b, i_in, k_in) == Eval({ (
                       IF k - i >= 0 /\ k - i <= 3 THEN Limb(a, i) * Limb(b, k - i) ELSE 0
    ) : i \in {i_in}, k \in {k_in} })
MulColumn(a_in, b_in, k_in) == Eval({ (
    MulTerm(a, b, 0, k) + MulTerm(a, b, 1, k) + MulTerm(a, b, 2, k) + MulTerm(a, b, 3, k)
    ) : a \in {a_in}, b \in {b_in}, k \in {k_in} })

\* Limbs 0..7 of the unsigned 64-bit product a * b
RECURSIVE MulLimbs(_, _, _, _)
MulLimbs(a_in, b_in, k_in, carry) == Eval({ (
    IF k = 8 THEN << >>
    ELSE Let([t \in {(IF k <= 6 THEN MulColumn(a, b, k) ELSE 0) + carry} |->
             << t % 256 >> \o MulLimbs(a, b, k + 1, t \div 256)])
    ) : a \in {a_in}, b \in {b_in}, k \in {k_in} })

wrapping_mul(a, b) ==
    Let([p \in {MulLimbs(a, b, 0, 0)} |->
        from_le_bytes4(p[1], p[2], p[3], p[4])])

\* ((a as u64 * b as u64) >> 32) as u32
mulhu(a, b) ==
    Let([p \in {MulLimbs(a, b, 0, 0)} |->
        from_le_bytes4(p[5], p[6], p[7], p[8])])

\* ((a as i32 as i64 * b as i32 as i64) >> 32) as u32
mulh(a_in, b_in) == Eval({ (
    wrapping_sub(wrapping_sub(mulhu(a, b), IF a < 0 THEN b ELSE 0), IF b < 0 THEN a ELSE 0)
    ) : a \in {a_in}, b \in {b_in} })

\* ((a as i32 as i64 * b as u64 as i64) >> 32) as u32
mulhsu(a_in, b_in) == Eval({ (wrapping_sub(mulhu(a, b), IF a < 0 THEN b ELSE 0)) : a \in {a_in}, b \in {b_in} })

\* A plausible slip: the quotient rounded towards minus infinity, with the
\* remainder that goes with it.
trunc_divrem_floored(a_in, b_in) == Eval({ (
    IF b = MinInt32
    THEN (IF a = MinInt32 THEN [q |-> 1, r |-> 0] ELSE [q |-> 0, r |-> a])
    ELSE Let([nb \in {IF b < 0 THEN 0 - b ELSE b} |->
         Let([fq \in {a \div nb} |->
         Let([fr \in {a % nb} |->
             [q |-> IF b < 0 THEN 0 - fq ELSE fq, r |-> fr]])])])
    ) : a \in {a_in}, b \in {b_in} })

\* Rust's truncating i32 division and remainder, for b /= 0 and not (MIN, -1)
trunc_divrem(a_in, b_in) == Eval({ (
    IF b = MinInt32
    THEN (IF a = MinInt32 THEN [q |-> 1, r |-> 0] ELSE [q |-> 0, r |-> a])
    ELSE Let([nb \in {IF b < 0 THEN 0 - b ELSE b} |->
         Let([fq \in {a \div nb} |->
         Let([fr \in {a % nb} |->
         Let([q1 \in {IF a < 0 /\ fr /= 0 THEN fq + 1 ELSE fq} |->
         Let([r1 \in {IF a < 0 /\ fr /= 0 THEN fr - nb ELSE fr} |->
             [q |-> IF b < 0 THEN 0 - q1 ELSE q1, r |-> r1]])])])])])
    ) : a \in {a_in}, b \in {b_in} })

\* u32 division and remainder for b /= 0, on the signed representation
udivrem(a_in, b_in) == Eval({ (
    IF b < 0
    THEN (IF Ltu(a, b) THEN [q |-> 0, r |-> a] ELSE [q |-> 1, r |-> wrapping_sub(a, b)])
    ELSE IF a >= 0 THEN [q |-> a \div b, r |-> a % b]
    ELSE Let([a_hi \in {Shr(a, 1)} |->
         Let([a_lo \in {a % 2} |->
         Let([qh \in {a_hi \div b} |->
         Let([r1 \in {a_hi % b} |->
         Let([ge \in {r1 >= (b - r1) - a_lo} |->
             [q |-> wrapping_add(Shl(qh, 1), B2I(ge)),
              r |-> IF ge THEN r1 - ((b - r1) - a_lo) ELSE 2 * r1 + a_lo]])])])])])
    ) : a \in {a_in}, b \in {b_in} })

rv32m_execute(m_in, instr_in) == Eval({ (
    LET op == instr.op IN
    Let([a \in {IF "rs1" \in DOMAIN instr THEN read_reg(m, instr.rs1) ELSE 0} |->
    Let([b \in {IF "rs2" \in DOMAIN instr THEN read_reg(m, instr.rs2) ELSE 0} |->
        CASE op = "Mul" -> Handled(write_reg(m, instr.rd, wrapping_mul(a, b)))
          [] op = "Mulh" -> Handled(write_reg(m, instr.rd, mulh(a, b)))
          [] op = "Mulhsu" -> Handled(write_reg(m, instr.rd, mulhsu(a, b)))
          [] op = "Mulhu" -> Handled(write_reg(m, instr.rd, mulhu(a, b)))
          [] op = "Div" ->
                Handled(write_reg(m, instr.rd,
                    IF b = 0 THEN -1
                    ELSE IF a = MinInt32 /\ b = -1 THEN a
                    ELSE trunc_divrem(a, b).q))
          [] op = "Divu" ->
                Handled(write_reg(m, instr.rd, IF b = 0 THEN -1 ELSE udivrem(a, b).q))
          [] op = "Rem" ->
                Handled(write_reg(m, instr.rd,
                    IF b = 0 THEN a
                    ELSE IF a = MinInt32 /\ b = -1 THEN 0
                    ELSE trunc_divrem(a, b).r))
          [] op = "Remu" ->
                Handled(write_reg(m, instr.rd, IF b = 0 THEN a ELSE udivrem(a, b).r))
          [] OTHER -> NotHandled(m)])])
    ) : m \in {m_in}, instr \in {instr_in} })

(***************************************************************************)
(* Floating-point executor (cpu/exu/rv32f.rs).  The arithmetic and the     *)
(* conversions are done by the external crate simple_soft_float; their     *)
(* outcome (result bits, whether a conversion produced a value, and the    *)
(* status flags as fflags bits) is an input `soft` of the step, drawn from *)
(* SoftFloatOutcomes.  Comparisons, classification, sign injection,        *)
(* min/max and moves work on the bit patterns and are computed here.       *)
(***************************************************************************)
NX == 1
UF == 2
OF == 4
DZ == 8
NV == 16
CANONICAL_NAN == W(\h7FC0, \h0000)

SoftFloatOutcomes ==
    { [is_some |-> TRUE, value |-> W(\h3F80, \h0000), flags |-> 0],
      [is_some |-> TRUE, value |-> W(\h7F80, \h0000), flags |-> OF + NX],
      [is_some |-> FALSE, value |-> CANONICAL_NAN, flags |-> NV] }

SoftOps ==
    {"FaddS", "FsubS", "FmulS", "FdivS", "FsqrtS", "FmaddS", "FmsubS", "FnmaddS", "FnmsubS",
     "FcvtWS", "FcvtWuS", "FcvtSW", "FcvtSWu"}

set_fflags(m_in, flags) == Eval({ (csr_write(m, CSR_FCSR, BitOr(csr_read(m, CSR_FCSR), flags))) : m \in {m_in} })

\* A plausible slip: the match accepting one encoding too many.
decode_rounding_mode_through_five(m_in, instr_rm_in) == Eval({ (
    Let([r \in {IF instr_rm = 7 THEN BitAnd(Shr(csr_read(m, CSR_FCSR), 5), 7) ELSE instr_rm} |->
        r \in 0 .. 5])
    ) : m \in {m_in}, instr_rm \in {instr_rm_in} })

\* decode_rounding_mode(..).is_some()
decode_rounding_mode(m_in, instr_rm_in) == Eval({ (
    Let([r \in {IF instr_rm = 7 THEN BitAnd(Shr(csr_read(m, CSR_FCSR), 5), 7) ELSE instr_rm} |->
        r \in 0 .. 4])
    ) : m \in {m_in}, instr_rm \in {instr_rm_in} })

apply_fp_state(m_in, bits_in) == Eval({ (IF bits /= 0 THEN set_fflags(m, bits) ELSE m) : m \in {m_in}, bits \in {bits_in} })

is_nan(bits) == Low31(bits) > W(\h7F80, \h0000)
is_signaling_nan_bits(bits_in) == Eval({ (
    Let([exp \in {BitAnd(bits, W(\h7F80, \h0000))} |->
    Let([frac \in {BitAnd(bits, W(\h007F, \hFFFF))} |->
        exp = W(\h7F80, \h0000) /\ frac /= 0 /\ BitAnd(frac, W(\h0040, \h0000)) = 0])])
    ) : bits \in {bits_in} })

\* The order of two non-NaN f32 values given by their bits: -0 and +0 are equal
f32_key(bits_in) == Eval({ (IF bits >= 0 THEN bits ELSE 0 - Low31(bits)) : bits \in {bits_in} })
f32_compare(a_bits_in, b_bits_in) == Eval({ (
    IF is_nan(a_bits) \/ is_nan(b_bits) THEN "None"
    ELSE IF f32_key(a_bits) < f32_key(b_bits) THEN "Less"
    ELSE IF f32_key(a_bits) = f32_key(b_bits) THEN "Equal"
    ELSE "Greater"
    ) : a_bits \in {a_bits_in}, b_bits \in {b_bits_in} })
compare_quiet_flags(a_bits, b_bits) ==
    IF is_signaling_nan_bits(a_bits) \/ is_signaling_nan_bits(b_bits) THEN NV ELSE 0
compare_signaling_flags(a_bits, b_bits) ==
    IF is_nan(a_bits) \/ is_nan(b_bits) THEN NV ELSE 0

handle_min_max(m_in, frd, frs1, frs2, is_min_in) == Eval({ (
    Let([a_bits \in {read_fp(m, frs1)} |->
    Let([b_bits \in {read_fp(m, frs2)} |->
    Let([a_nan \in {is_nan(a_bits)} |->
    Let([b_nan \in {is_nan(b_bits)} |->
    Let([flag_bits \in {IF is_signaling_nan_bits(a_bits) \/ is_signaling_nan_bits(b_bits) THEN NV ELSE 0} |->
    Let([result_bits \in {
            IF a_nan /\ b_nan THEN CANONICAL_NAN
            ELSE IF a_nan THEN b_bits
            ELSE IF b_nan THEN a_bits
            ELSE IF Low31(a_bits) = 0 /\ Low31(b_bits) = 0
                 THEN (IF is_min THEN BitOr(a_bits, b_bits) ELSE BitAnd(a_bits, b_bits))
            ELSE IF a_bits = b_bits THEN a_bits
            ELSE Let([choose_a \in {IF is_min THEN f32_key(a_bits) < f32_key(b_bits)
                     ELSE f32_key(a_bits) > f32_key(b_bits)} |->
                     IF choose_a THEN a_bits ELSE b_bits])} |->
    Let([m1 \in {write_fp(m, frd, result_bits)} |->
        IF flag_bits /= 0 THEN set_fflags(m1, flag_bits) ELSE m1])])])])])])])
    ) : m \in {m_in}, is_min \in {is_min_in} })

fclass(bits_in) == Eval({ (
    Let([sign \in {Shr(bits, 31)} |->
    Let([exp \in {BitAnd(Shr(bits, 23), \hFF)} |->
    Let([frac \in {BitAnd(bits, W(\h007F, \hFFFF))} |->
        IF exp = \hFF
        THEN (IF frac = 0 THEN (IF sign = 0 THEN Shl(1, 7) ELSE Shl(1, 0))
              ELSE IF BitAnd(frac, W(\h0040, \h0000)) /= 0 THEN Shl(1, 9)
              ELSE Shl(1, 8))
        ELSE IF exp = 0
        THEN (IF frac = 0 THEN (IF sign = 0 THEN Shl(1, 4) ELSE Shl(1, 3))
              ELSE (IF sign = 0 THEN Shl(1, 5) ELSE Shl(1, 2)))
        ELSE (IF sign = 0 THEN Shl(1, 6) ELSE Shl(1, 1))])])])
    ) : bits \in {bits_in} })

\* The saturated results of FCVT.W.S / FCVT.WU.S when the conversion gives none
fcvt_w_saturate(bits_in) == Eval({ (
    IF is_nan(bits) THEN 2147483647
    ELSE IF bits < 0 THEN MinInt32
    ELSE 2147483647
    ) : bits \in {bits_in} })
fcvt_wu_saturate(bits_in) == Eval({ (IF is_nan(bits) \/ bits >= 0 THEN -1 ELSE 0) : bits \in {bits_in} })

\* The arithmetic arms: the rounding mode is decoded, then the softfloat
\* result and its flags are written
fp_arith(m_in, instr_in, soft_in) == Eval({ (
    IF ~decode_rounding_mode(m, instr.rm) THEN NotHandled(m)
    ELSE Handled(write_fp(apply_fp_state(m, soft.flags), instr.frd, soft.value))
    ) : m \in {m_in}, instr \in {instr_in}, soft \in {soft_in} })

rv32f_execute(m_in, instr_in, current_pc_in, soft_in) == Eval({ (
    LET op == instr.op IN
    LET SIGN == MinInt32 IN
        IF ~has_fp(m) THEN NotHandled(m)
        ELSE CASE op = "Flw" ->
                    Let([addr \in {wrapping_add(read_reg(m, instr.rs1), instr.offset)} |->
                    Let([r \in {mem_result(m, load32(m.mem, addr), "Load", current_pc)} |->
                        Handled(IF r.is_some THEN write_fp(r.m, instr.frd, r.v) ELSE r.m)])])
               [] op = "Fsw" ->
                    Let([addr \in {wrapping_add(read_reg(m, instr.rs1), instr.offset)} |->
                    Let([value \in {read_fp(m, instr.frs2)} |->
                        Handled(mem_result_unit(m, store32(m.mem, addr, value), "Store", current_pc).m)])])
               [] op \in {"FaddS", "FsubS", "FmulS", "FdivS", "FsqrtS",
                          "FmaddS", "FmsubS", "FnmaddS", "FnmsubS", "FcvtSW", "FcvtSWu"} ->
                    fp_arith(m, instr, soft)
               [] op = "FsgnjS" ->
                    Let([a \in {read_fp(m, instr.frs1)} |->
                    Let([b \in {read_fp(m, instr.frs2)} |->
                        Handled(write_fp(m, instr.frd, BitOr(Low31(a), BitAnd(b, SIGN))))])])
               [] op = "FsgnjnS" ->
                    Let([a \in {read_fp(m, instr.frs1)} |->
                    Let([b \in {read_fp(m, instr.frs2)} |->
                        Handled(write_fp(m, instr.frd,
                                         BitOr(Low31(a), BitAnd(BitXor(b, SIGN), SIGN))))])])
               [] op = "FsgnjxS" ->
                    Let([a \in {read_fp(m, instr.frs1)} |->
                    Let([b \in {read_fp(m, instr.frs2)} |->
                        Handled(write_fp(m, instr.frd, BitXor(a, BitAnd(b, SIGN))))])])
               [] op = "FminS" -> Handled(handle_min_max(m, instr.frd, instr.frs1, instr.frs2, TRUE))
               [] op = "FmaxS" -> Handled(handle_min_max(m, instr.frd, instr.frs1, instr.frs2, FALSE))
               [] op = "FeqS" ->
                    Let([a \in {read_fp(m, instr.frs1)} |->
                    Let([b \in {read_fp(m, instr.frs2)} |->
                    Let([m1 \in {apply_fp_state(m, compare_quiet_flags(a, b))} |->
                        Handled(write_reg(m1, instr.rd, B2I(f32_compare(a, b) = "Equal")))])])])
               [] op = "FltS" ->
                    Let([a \in {read_fp(m, instr.frs1)} |->
                    Let([b \in {read_fp(m, instr.frs2)} |->
                    Let([m1 \in {apply_fp_state(m, compare_signaling_flags(a, b))} |->
                        Handled(write_reg(m1, instr.rd, B2I(f32_compare(a, b) = "Less")))])])])
               [] op = "FleS" ->
                    Let([a \in {read_fp(m, instr.frs1)} |->
                    Let([b \in {read_fp(m, instr.frs2)} |->
                    Let([m1 \in {apply_fp_state(m, compare_signaling_flags(a, b))} |->
                        Handled(write_reg(m1, instr.rd, B2I(f32_compare(a, b) \in {"Less", "Equal"})))])])])
               [] op = "FclassS" -> Handled(write_reg(m, instr.rd, fclass(read_fp(m, instr.frs1))))
               [] op = "FcvtWS" ->
                    IF ~decode_rounding_mode(m, instr.rm) THEN NotHandled(m)
                    ELSE Let([bits \in {read_fp(m, instr.frs1)} |->
                         Let([m1 \in {apply_fp_state(m, soft.flags)} |->
                             Handled(write_reg(m1, instr.rd,
                                 IF soft.is_some THEN soft.value ELSE fcvt_w_saturate(bits)))])])
               [] op = "FcvtWuS" ->
                    IF ~decode_rounding_mode(m, instr.rm) THEN NotHandled(m)
                    ELSE Let([bits \in {read_fp(m, instr.frs1)} |->
                         Let([m1 \in {apply_fp_state(m, soft.flags)} |->
                             Handled(write_reg(m1, instr.rd,
                                 IF soft.is_some THEN soft.value ELSE fcvt_wu_saturate(bits)))])])
               [] op = "FmvXW" -> Handled(write_reg(m, instr.rd, read_fp(m, instr.frs1)))
               [] op = "FmvWX" -> Handled(write_fp(m, instr.frd, read_reg(m, instr.rs1)))
               [] OTHER -> NotHandled(m)
    ) : m \in {m_in}, instr \in {instr_in}, current_pc \in {current_pc_in}, soft \in {soft_in} })

(***************************************************************************)
(* CSR executor (cpu/exu/zicsr.rs)                                         *)
(***************************************************************************)
\* A plausible slip: CSRRW reading rs1 after rd has been written.
zicsr_execute_late_rs1(m_in, instr_in) == Eval({ (
    LET op == instr.op IN
        CASE op = "Csrrw" ->
                Let([m1 \in {IF instr.rd /= 0 THEN write_reg(m, instr.rd, csr_read(m, instr.csr)) ELSE m} |->
                    Handled(csr_write(m1, instr.csr, read_reg(m1, instr.rs1)))])
          [] op = "Csrrs" ->
                Let([old_val \in {csr_read(m, instr.csr)} |->
                Let([m1 \in {write_reg(m, instr.rd, old_val)} |->
                    Handled(IF instr.rs1 /= 0
                            THEN csr_write(m1, instr.csr, BitOr(old_val, read_reg(m1, instr.rs1)))
                            ELSE m1)])])
          [] op = "Csrrc" ->
                Let([old_val \in {csr_read(m, instr.csr)} |->
                Let([m1 \in {write_reg(m, instr.rd, old_val)} |->
                    Handled(IF instr.rs1 /= 0
                            THEN csr_write(m1, instr.csr,
                                           BitAnd(old_val, BitNot(read_reg(m1, instr.rs1))))
                            ELSE m1)])])
          [] op = "Csrrwi" ->
                Let([m1 \in {IF instr.rd /= 0 THEN write_reg(m, instr.rd, csr_read(m, instr.csr)) ELSE m} |->
                    Handled(csr_write(m1, instr.csr, instr.zimm))])
          [] op = "Csrrsi" ->
                Let([old_val \in {csr_read(m, instr.csr)} |->
                Let([m1 \in {write_reg(m, instr.rd, old_val)} |->
                    Handled(IF instr.zimm /= 0
                            THEN csr_write(m1, instr.csr, BitOr(old_val, instr.zimm))
                            ELSE m1)])])
          [] op = "Csrrci" ->
                Let([old_val \in {csr_read(m, instr.csr)} |->
                Let([m1 \in {write_reg(m, instr.rd, old_val)} |->
                    Handled(IF instr.zimm /= 0
                            THEN csr_write(m1, instr.csr, BitAnd(old_val, BitNot(instr.zimm)))
                            ELSE m1)])])
          [] OTHER -> NotHandled(m)
    ) : m \in {m_in}, instr \in {instr_in} })

zicsr_execute(m_in, instr_in) == Eval({ (
    LET op == instr.op IN
        CASE op = "Csrrw" ->
                Let([rs1_val \in {read_reg(m, instr.rs1)} |->
                Let([m1 \in {IF instr.rd /= 0 THEN write_reg(m, instr.rd, csr_read(m, instr.csr)) ELSE m} |->
                    Handled(csr_write(m1, instr.csr, rs1_val))])])
          [] op = "Csrrs" ->
                Let([old_val \in {csr_read(m, instr.csr)} |->
                Let([m1 \in {write_reg(m, instr.rd, old_val)} |->
                    Handled(IF instr.rs1 /= 0
                            THEN csr_write(m1, instr.csr, BitOr(old_val, read_reg(m1, instr.rs1)))
                            ELSE m1)])])
          [] op = "Csrrc" ->
                Let([old_val \in {csr_read(m, instr.csr)} |->
                Let([m1 \in {write_reg(m, instr.rd, old_val)} |->
                    Handled(IF instr.rs1 /= 0
                            THEN csr_write(m1, instr.csr,
                                           BitAnd(old_val, BitNot(read_reg(m1, instr.rs1))))
                            ELSE m1)])])
          [] op = "Csrrwi" ->
                Let([m1 \in {IF instr.rd /= 0 THEN write_reg(m, instr.rd, csr_read(m, instr.csr)) ELSE m} |->
                    Handled(csr_write(m1, instr.csr, instr.zimm))])
          [] op = "Csrrsi" ->
                Let([old_val \in {csr_read(m, instr.csr)} |->
                Let([m1 \in {write_reg(m, instr.rd, old_val)} |->
                    Handled(IF instr.zimm /= 0
                            THEN csr_write(m1, instr.csr, BitOr(old_val, instr.zimm))
                            ELSE m1)])])
          [] op = "Csrrci" ->
                Let([old_val \in {csr_read(m, instr.csr)} |->
                Let([m1 \in {write_reg(m, instr.rd, old_val)} |->
                    Handled(IF instr.zimm /= 0
                            THEN csr_write(m1, instr.csr, BitAnd(old_val, BitNot(instr.zimm)))
                            ELSE m1)])])
          [] OTHER -> NotHandled(m)
    ) : m \in {m_in}, instr \in {instr_in} })

(***************************************************************************)
(* Privileged executor (cpu/exu/priv_instr.rs)                             *)
(***************************************************************************)
\* A plausible slip: MRET leaving MPP as it was.
execute_mret_keep_mpp(m_in) == Eval({ (
    Let([mstatus_val \in {csr_read(m, CSR_MSTATUS)} |->
    Let([mpie \in {read_mpie(mstatus_val)} |->
    Let([mpp \in {read_mpp(mstatus_val)} |->
    Let([s1 \in {IF mpie THEN BitOr(mstatus_val, MIE_MASK) ELSE BitAnd(mstatus_val, BitNot(MIE_MASK))} |->
    Let([s3 \in {BitOr(s1, MPIE_MASK)} |->
    Let([m1 \in {csr_write(m, CSR_MSTATUS, s3)} |->
    Let([m2 \in {set_privilege(m1, from_bits(mpp))} |->
        set_pc(m2, csr_read(m2, CSR_MEPC))])])])])])])])
    ) : m \in {m_in} })

execute_mret(m_in) == Eval({ (
    Let([mstatus_val \in {csr_read(m, CSR_MSTATUS)} |->
    Let([mpie \in {read_mpie(mstatus_val)} |->
    Let([mpp \in {read_mpp(mstatus_val)} |->
    Let([s1 \in {IF mpie THEN BitOr(mstatus_val, MIE_MASK) ELSE BitAnd(mstatus_val, BitNot(MIE_MASK))} |->
    Let([s2 \in {write_mpp(s1, 0)} |->
    Let([s3 \in {BitOr(s2, MPIE_MASK)} |->
    Let([m1 \in {csr_write(m, CSR_MSTATUS, s3)} |->
    Let([m2 \in {set_privilege(m1, from_bits(mpp))} |->
    Let([mepc \in {csr_read(m2, CSR_MEPC)} |->
        set_pc(m2, mepc)])])])])])])])])])
    ) : m \in {m_in} })

execute_sret(m_in) == Eval({ (
    Let([sstatus_val \in {csr_read(m, CSR_SSTATUS)} |->
    Let([spie \in {BitAnd(Shr(sstatus_val, SPIE), 1) /= 0} |->
    Let([spp \in {BitAnd(Shr(sstatus_val, SPP), 1)} |->
    Let([s1 \in {IF spie THEN BitOr(sstatus_val, SIE_MASK) ELSE BitAnd(sstatus_val, BitNot(SIE_MASK))} |->
    Let([s2 \in {BitAnd(s1, BitNot(SPP_MASK))} |->
    Let([s3 \in {BitOr(s2, SPIE_MASK)} |->
    Let([m1 \in {csr_write(m, CSR_SSTATUS, s3)} |->
    Let([new_mode \in {IF spp = 0 THEN "User" ELSE "Supervisor"} |->
    Let([m2 \in {set_privilege(m1, new_mode)} |->
    Let([sepc \in {csr_read(m2, CSR_SEPC)} |->
        set_pc(m2, sepc)])])])])])])])])])])
    ) : m \in {m_in} })

\* A plausible slip: WFI retired as a no-op.
execute_wfi_nop(m) == m

execute_wfi(m) == set_state(m, WaitForInterrupt)

priv_execute(m_in, instr_in) == Eval({ (
    CASE instr.op = "Mret" -> Handled(execute_mret(m))
      [] instr.op = "Sret" -> Handled(execute_sret(m))
      [] instr.op = "Wfi" -> Handled(execute_wfi(m))
      [] OTHER -> NotHandled(m)
    ) : m \in {m_in}, instr \in {instr_in} })

(***************************************************************************)
(* The core's step (cpu.rs)                                                *)
(***************************************************************************)
\* A plausible slip: an unclaimed instruction raising IllegalInstruction as a trap.
execute_unclaimed_traps(m, decoded, current_pc) ==
    take_trap_at(m, "IllegalInstruction", decoded.raw, current_pc)

\* The final match of CpuCore::execute, reached when no executor claims
execute_unclaimed(m_in, decoded_in, current_pc) == Eval({ (
    CASE decoded.instr.op = "Illegal" -> set_state(m, IllegalInstruction(decoded.instr.raw))
      [] decoded.instr.op = "Custom" -> set_state(m, IllegalInstruction(decoded.instr.raw))
      [] OTHER -> set_state(m, IllegalInstruction(decoded.raw))
    ) : m \in {m_in}, decoded \in {decoded_in} })

\* CpuCore::execute: the executors in order, the first to claim wins.
\* execute_r also tells whether an executor claimed the instruction.
execute_r(m_in, decoded_in, current_pc_in, soft) == Eval({ (
    LET instr == decoded.instr IN
    Let([r_i \in {rv32i_execute(m, instr, current_pc)} |->
        IF r_i.handled THEN [claimed |-> TRUE, m |-> r_i.m]
        ELSE
    Let([r_m \in {rv32m_execute(m, instr)} |->
        IF r_m.handled THEN [claimed |-> TRUE, m |-> r_m.m]
        ELSE
    Let([r_f \in {rv32f_execute(m, instr, current_pc, soft)} |->
        IF r_f.handled THEN [claimed |-> TRUE, m |-> r_f.m]
        ELSE
    Let([r_z \in {zicsr_execute(m, instr)} |->
        IF r_z.handled THEN [claimed |-> TRUE, m |-> r_z.m]
        ELSE
    Let([r_p \in {priv_execute(m, instr)} |->
        IF r_p.handled THEN [claimed |-> TRUE, m |-> r_p.m]
        ELSE [claimed |-> FALSE, m |-> execute_unclaimed(m, decoded, current_pc)]])])])])])
    ) : m \in {m_in}, decoded \in {decoded_in}, current_pc \in {current_pc_in} })

execute(m, decoded, current_pc, soft) == execute_r(m, decoded, current_pc, soft).m

\* The instruction fetch.  The step in the source tree uses the word that
\* load32 returns as is; with the MemResult interface of memory.rs a failed
\* fetch raises InstructionAccessFault at the fetch address instead of
\* executing anything.
fetch_fault(m_in) == Eval({ (take_trap_at(m, "InstructionAccessFault", m.pc, m.pc)) : m \in {m_in} })

(***************************************************************************)
(* Bounds and the configurations explored                                  *)
(***************************************************************************)
MaxSteps == 3
MaxHostOps == 1
MemSize == 64

\* Extension sets: CpuCore::new (base RV32I, no CSR registered, no FP state);
\* a CpuBuilder core with M, F, Zicsr and the privileged instructions; and a
\* core whose registry also holds the custom-0 decoder.
CfgNew == {}
CfgFull == {"M", "F", "Zicsr", "Priv"}
CfgCustom == {"Zicsr", "Priv", "Custom"}
IsaConfigs == {CfgNew, CfgFull, CfgCustom}

\* The word at the entry address, per configuration
BaseWords ==
    { W(\h0050, \h8013),  \* ADDI x0, x1, 5
      W(\hFFF0, \h8113),  \* ADDI x2, x1, -1
      W(\h0010, \h8033),  \* ADD x0, x1, x1
      W(\h03F0, \h9113),  \* SLLI x2, x1, 31 with instruction bit 25 set
      W(\hFFFF, \hF037),  \* LUI x0, 0xFFFFF
      W(\h0000, \h1117),  \* AUIPC x2, 1
      W(\h0300, \h2003),  \* LW x0, 48(x0)
      W(\h0310, \h2103),  \* LW x2, 49(x0)
      W(\h0000, \hA103),  \* LW x2, 0(x1)
      W(\h03E0, \h2103),  \* LW x2, 62(x0)
      W(\h03D0, \h1003),  \* LH x0, 61(x0)
      W(\h0000, \hC003),  \* LBU x0, 0(x1)
      W(\h0210, \h2A23),  \* SW x1, 52(x0)
      W(\h0210, \h2F23),  \* SW x1, 62(x0)
      W(\h0210, \h1BA3),  \* SH x1, 55(x0)
      W(\h0010, \h8023),  \* SB x1, 0(x1)
      W(\h0200, \h006F),  \* JAL x0, 32
      W(\h0240, \h00EF),  \* JAL x1, 36
      W(\h0020, \h006F),  \* JAL x0, 2
      W(\h0020, \h0067),  \* JALR x0, 2(x0)
      W(\h0000, \h8067),  \* JALR x0, 0(x1)
      W(\h0030, \h80E7),  \* JALR x1, 3(x1)
      W(\h0200, \h0063),  \* BEQ x0, x0, 32
      W(\h0010, \h1363),  \* BNE x0, x1, 6
      W(\h0210, \h6063),  \* BLTU x0, x1, 32
      W(\h0200, \hC063),  \* BLT x1, x0, 32
      W(\h0000, \h0073),  \* ECALL
      W(\h0010, \h0073),  \* EBREAK
      W(\h0FF0, \h000F),  \* FENCE
      W(\h0000, \h0000),  \* all zero: no table entry
      W(\hFFFF, \hFFFF),  \* all ones: no table entry
      W(\h3020, \h0073),  \* MRET encoding
      W(\h0210, \h8133),  \* MUL x2, x1, x1
      W(\h3000, \h9073),  \* CSRRW x0, mstatus, x1
      W(\h0000, \h000B) }  \* custom-0 opcode

FullWords ==
    { W(\h0050, \h8013),  \* ADDI x0, x1, 5
      W(\h0210, \h8033),  \* MUL x0, x1, x1
      W(\h0200, \hC033),  \* DIV x0, x1, x0
      W(\h0210, \hB133),  \* MULHU x2, x1, x1
      W(\h0210, \hE133),  \* REM x2, x1, x1
      W(\h3000, \h9073),  \* CSRRW x0, mstatus, x1
      W(\h3000, \h9173),  \* CSRRW x2, mstatus, x1
      W(\h3000, \hA073),  \* CSRRS x0, mstatus, x1
      W(\h3410, \h90F3),  \* CSRRW x1, mepc, x1
      W(\h3050, \hB073),  \* CSRRC x0, mtvec, x1
      W(\h3411, \h5073),  \* CSRRWI x0, mepc, 2
      W(\h3411, \h5173),  \* CSRRWI x2, mepc, 2
      W(\h3000, \hA0F3),  \* CSRRS x1, mstatus, x1
      W(\h3050, \hB0F3),  \* CSRRC x1, mtvec, x1
      W(\h3050, \hB173),  \* CSRRC x2, mtvec, x1
      W(\h3050, \h2173),  \* CSRRS x2, mtvec, x0
      W(\h3000, \h6173),  \* CSRRSI x2, mstatus, 0
      W(\h300F, \hE173),  \* CSRRSI x2, mstatus, 31
      W(\h100F, \hF073),  \* CSRRCI x0, sstatus, 31
      W(\h3020, \h0073),  \* MRET
      W(\h1020, \h0073),  \* SRET
      W(\h1050, \h0073),  \* WFI
      W(\h0000, \h0073),  \* ECALL
      W(\h0010, \h0073),  \* EBREAK
      W(\h0020, \h0067),  \* JALR x0, 2(x0)
      W(\h0000, \hA103),  \* LW x2, 0(x1)
      W(\h0210, \h2F23),  \* SW x1, 62(x0)
      W(\hE000, \h8053),  \* FMV.X.W x0, f1
      W(\hE000, \h8153),  \* FMV.X.W x2, f1
      W(\hE000, \h9053),  \* FCLASS.S x0, f1
      W(\hA020, \hA053),  \* FEQ.S x0, f1, f2
      W(\hA020, \h9153),  \* FLT.S x2, f1, f2
      W(\hC000, \h8053),  \* FCVT.W.S x0, f1, rne
      W(\hC000, \hD153),  \* FCVT.W.S x2, f1, rm=5
      W(\h0020, \h81D3),  \* FADD.S f3, f1, f2, rne
      W(\h0020, \hE1D3),  \* FADD.S f3, f1, f2, rm=6
      W(\h0020, \hF1D3),  \* FADD.S f3, f1, f2, dyn
      W(\h2820, \h81D3),  \* FMIN.S f3, f1, f2
      W(\hF000, \h81D3),  \* FMV.W.X f3, x1
      W(\h0300, \h2187),  \* FLW f3, 48(x0)
      W(\h0310, \h2187),  \* FLW f3, 49(x0)
      W(\h0210, \h28A7),  \* FSW f1, 49(x0)
      W(\h0000, \h0000),  \* all zero: no table entry
      W(\h0000, \h000B) }  \* custom-0 opcode

CustomWords ==
    { W(\h0000, \h000B),  \* custom-0, all fields zero
      W(\h1234, \h500B),  \* custom-0 with operand bits
      W(\h0050, \h8013),  \* ADDI x0, x1, 5
      W(\h1050, \h0073),  \* WFI
      W(\h3020, \h0073) }  \* MRET

EntryWords(e_in) == Eval({ (
                 IF e = CfgNew THEN BaseWords ELSE IF e = CfgFull THEN FullWords ELSE CustomWords
    ) : e \in {e_in} })

\* The words of the guest programs of the simulation environment:
\* ADDI x1, x0, v; SW x1, 48(x0); SW x1, 52(x0); JAL x0, 0
SimValues == {0, 1, 2, 5}
SimTails == {"spin", "halt", "again", "echo"}
ADDI_X1(v) == W(v * 16, \h0093)
SW_X1_TOHOST == W(\h0210, \h2823)
SW_X1_FROMHOST == W(\h0210, \h2A23)
JAL_SELF == W(\h0000, \h006F)
SimWords == { ADDI_X1(v) : v \in SimValues } \cup {SW_X1_TOHOST, SW_X1_FROMHOST, JAL_SELF}

\* The words of the guests that store and load back, call and return,
\* divide, and compute in floating point
AccessStoreWords ==
    { W(\h0020, \h9023),  \* SH x2, 0(x1)
      W(\h0020, \hA023),  \* SW x2, 0(x1)
      W(\h0020, \h90A3),  \* SH x2, 1(x1)
      W(\h0020, \hA0A3) }  \* SW x2, 1(x1)
AccessLoadWords ==
    { W(\h0000, \h9183),  \* LH x3, 0(x1)
      W(\h0000, \hD183),  \* LHU x3, 0(x1)
      W(\h0000, \hA183),  \* LW x3, 0(x1)
      W(\h0010, \h9183),  \* LH x3, 1(x1)
      W(\h0010, \hD183),  \* LHU x3, 1(x1)
      W(\h0010, \hA183) }  \* LW x3, 1(x1)
CallWords ==
    { W(\h0080, \h00EF),  \* JAL x1, 8
      W(\h00C0, \h00EF),  \* JAL x1, 12
      W(\hFF9F, \hF0EF),  \* JAL x1, -8
      W(\h0080, \h006F) }  \* JAL x0, 8
ReturnWords ==
    { W(\h0000, \h8067),  \* JALR x0, 0(x1)
      W(\h0000, \h80E7),  \* JALR x1, 0(x1)
      W(\h0030, \h80E7),  \* JALR x1, 3(x1)
      W(\hFFC0, \h8067) }  \* JALR x0, -4(x1)
DivWords ==
    { W(\h0220, \hC1B3),  \* DIV x3, x1, x2
      W(\h0220, \hD1B3),  \* DIVU x3, x1, x2
      W(\h0220, \hE1B3),  \* REM x3, x1, x2
      W(\h0220, \hF1B3),  \* REMU x3, x1, x2
      W(\h0220, \hC0B3) }  \* DIV x1, x1, x2
FpFirstWords ==
    { W(\h2820, \h81D3),  \* FMIN.S f3, f1, f2
      W(\h2820, \h91D3),  \* FMAX.S f3, f1, f2
      W(\h0020, \h81D3),  \* FADD.S f3, f1, f2, rne
      W(\h0020, \hD1D3),  \* FADD.S f3, f1, f2, rm=5
      W(\h0020, \hE1D3),  \* FADD.S f3, f1, f2, rm=6
      W(\h0020, \hF1D3),  \* FADD.S f3, f1, f2, dyn
      W(\hC000, \hD153),  \* FCVT.W.S x2, f1, rm=5
      W(\h5800, \hE1D3),  \* FSQRT.S f3, f1, rm=6
      W(\h0820, \hE1C3) }  \* FMADD.S f3, f1, f2, f1, rm=6
FpSecondWords ==
    { W(\h0010, \h2173),  \* CSRRS x2, fflags, x0
      W(\h0020, \h2173),  \* CSRRS x2, frm, x0
      W(\h0030, \h2173),  \* CSRRS x2, fcsr, x0
      W(\h2820, \h91D3) }  \* FMAX.S f3, f1, f2
GuestWords ==
    AccessStoreWords \cup AccessLoadWords \cup CallWords \cup ReturnWords \cup DivWords
        \cup FpFirstWords \cup FpSecondWords

ProgramWords ==
    BaseWords \cup FullWords \cup CustomWords \cup SimWords \cup GuestWords
        \cup {SRET_ENCODING, WFI_ENCODING}

\* DecoderRegistry::decode of the configuration's registry; the results for
\* the words the programs are made of are computed once.
DecodeTable == [e \in IsaConfigs |-> [w \in ProgramWords |-> Registry_decode(IsaConfig_build(e), w)]]
decode(e_in, raw_in) == Eval({ (
    IF e \in IsaConfigs /\ raw \in ProgramWords THEN DecodeTable[e][raw]
    ELSE Registry_decode(IsaConfig_build(e), raw)
    ) : e \in {e_in}, raw \in {raw_in} })

\* CpuCore::step.  step_r returns the machine after the step together with
\* what the step did: whether a word was fetched, what it decoded to and
\* whether an executor claimed it.
NoInstr == [raw |-> 0, instr |-> [op |-> "None"]]
step_r(m_in, soft) == Eval({ (
    IF m.state /= Running
    THEN [m |-> m, fetched |-> FALSE, decoded |-> NoInstr, claimed |-> FALSE]
    ELSE Let([instr_word \in {load32(m.mem, m.pc)} |->
             IF ~instr_word.ok
             THEN [m |-> fetch_fault(m), fetched |-> FALSE, decoded |-> NoInstr, claimed |-> FALSE]
             ELSE Let([decoded \in {decode(m.isa, instr_word.val)} |->
                  LET current_pc == m.pc IN
                  Let([m1 \in {set_pc(m, wrapping_add(m.pc, 4))} |->
                  Let([r \in {execute_r(m1, decoded, current_pc, soft)} |->
                      [m |-> r.m, fetched |-> TRUE, decoded |-> decoded, claimed |-> r.claimed]])])])])
    ) : m \in {m_in} })

step(m, soft) == step_r(m, soft).m

\* The memory image: the entry word at 0, MRET at 4 and at the handler
\* address 32, EBREAK at 8 and ECALL at 16 (the return addresses the host
\* set-ups put in mepc), SRET at 36, WFI at 60 (the vectored slot of
\* interrupt 7), data bytes from 48, zero elsewhere.
InitByte(i_in, w0_in) == Eval({ (
    IF i \in 0 .. 3 THEN to_le_byte(w0, i)
    ELSE IF i \in 4 .. 7 THEN to_le_byte(MRET_ENCODING, i - 4)
    ELSE IF i \in 8 .. 11 THEN to_le_byte(W(\h0010, \h0073), i - 8)
    ELSE IF i \in 16 .. 19 THEN to_le_byte(W(\h0000, \h0073), i - 16)
    ELSE IF i \in 32 .. 35 THEN to_le_byte(MRET_ENCODING, i - 32)
    ELSE IF i \in 36 .. 39 THEN to_le_byte(SRET_ENCODING, i - 36)
    ELSE IF i \in 60 .. 63 THEN to_le_byte(WFI_ENCODING, i - 60)
    ELSE IF i \in 48 .. 59 THEN (i * 37 + 129) % 256
    ELSE 0
    ) : i \in {i_in}, w0 \in {w0_in} })
InitMem(w0_in) == Eval({ ([base_addr |-> 0, data |-> [i \in 0 .. MemSize - 1 |-> InitByte(i, w0)]]) : w0 \in {w0_in} })

\* CpuBuilder::build / CpuCore::new: the CSR bank and the FP file of a configuration
NoCsr == [a \in {} |-> 0]
Construct_csr(e_in) == Eval({ (
    IF e = CfgNew THEN NoCsr
    ELSE [a \in BASE_CSRS \cup M_CSRS \cup (IF "F" \in e THEN F_CSRS ELSE {}) |-> 0]
    ) : e \in {e_in} })
Construct_f(e_in) == Eval({ (
    [is_some |-> "F" \in e,
     regs |-> [r \in Regs |-> IF "F" \notin e THEN 0
                              ELSE IF r = 1 THEN W(\h7FA0, \h0000)
                              ELSE IF r = 2 THEN W(\hBF80, \h0000) ELSE 0]]
    ) : e \in {e_in} })

\* Host set-up before the first step: set_privilege and csr_write calls
HostProfiles ==
    { [privilege |-> "Machine", writes |-> << >>],
      [privilege |-> "User",
       writes |-> << <<CSR_MSTATUS, \h0008>>, <<CSR_MTVEC, 32>>, <<CSR_MEPC, 8>> >>],
      [privilege |-> "Supervisor",
       writes |-> << <<CSR_MSTATUS, W(\h8000, \h6880)>>, <<CSR_MTVEC, 33>>, <<CSR_MEPC, 16>>,
                     <<CSR_MEDELEG, -1>>, <<CSR_MIDELEG, -1>> >>],
      [privilege |-> "Machine",
       writes |-> << <<CSR_MSTATUS, \h1008>>, <<CSR_MTVEC, 34>>, <<CSR_MEPC, 10>>,
                     <<CSR_SSTATUS, \h0120>>, <<CSR_SEPC, 8>> >>],
      [privilege |-> "User",
       writes |-> << <<CSR_MSTATUS, \h1888>>, <<CSR_MTVEC, 35>>, <<CSR_MEPC, 0>>,
                     <<CSR_SEPC, 6>> >>] }

RECURSIVE ApplyWrites(_, _, _)
ApplyWrites(table_in, writes_in, k_in) == Eval({ (
    IF k > Len(writes) THEN table
    ELSE ApplyWrites(CsrBank_write(table, writes[k][1], writes[k][2]), writes, k + 1)
    ) : table \in {table_in}, writes \in {writes_in}, k \in {k_in} })

X1Values == {33, W(\h8000, \h1088)}

(***************************************************************************)
(* Simulation environment (sim_env.rs).  A SimEnv is the record            *)
(* [m, tohost_addr, fromhost_addr, instructions_executed]: the core with   *)
(* its memory, the two optional mailbox addresses and the step counter.    *)
(***************************************************************************)
Pass == << "Pass" >>
Fail(n) == << "Fail", n >>
Timeout == << "Timeout" >>

\* TestResult::from_tohost
from_tohost(value_in) == Eval({ (
    IF value = 1 THEN Pass
    ELSE IF value /= 0 THEN Fail(Shr(value, 1))
    ELSE Timeout
    ) : value \in {value_in} })

\* The soft-float outcome of a step of the environment (its programs have no FP instruction)
SimSoft == CHOOSE o \in SoftFloatOutcomes : o.flags = 0

\* SimEnv::step
SimEnv_step(e_in) == Eval({ ([e EXCEPT !.m = step(e.m, SimSoft), !.instructions_executed = @ + 1]) : e \in {e_in} })

\* A plausible slip: the mailboxes cleared only on the tohost side.
clear_htif_mailboxes_tohost_only(e_in) == Eval({ (
    IF e.tohost_addr.is_some
    THEN [e EXCEPT !.m.mem = store32(e.m.mem, e.tohost_addr.v, 0).mem]
    ELSE e
    ) : e \in {e_in} })

\* SimEnv::clear_htif_mailboxes: the result of each store is dropped
clear_htif_mailboxes(e_in) == Eval({ (
    Let([e1 \in {IF e.tohost_addr.is_some
                 THEN [e EXCEPT !.m.mem = store32(e.m.mem, e.tohost_addr.v, 0).mem]
                 ELSE e} |->
        IF e1.fromhost_addr.is_some
        THEN [e1 EXCEPT !.m.mem = store32(e1.m.mem, e1.fromhost_addr.v, 0).mem]
        ELSE e1])
    ) : e \in {e_in} })

\* A plausible slip: the acknowledgment copying the value to fromhost
\* without writing 0 back to tohost.
acknowledge_tohost_keeps_tohost(e_in, value) == Eval({ (
    IF e.fromhost_addr.is_some
    THEN [e EXCEPT !.m.mem = store32(e.m.mem, e.fromhost_addr.v, value).mem]
    ELSE e
    ) : e \in {e_in} })

\* SimEnv::acknowledge_tohost
acknowledge_tohost(e_in, value) == Eval({ (
    Let([e1 \in {IF e.tohost_addr.is_some
                 THEN [e EXCEPT !.m.mem = store32(e.m.mem, e.tohost_addr.v, 0).mem]
                 ELSE e} |->
        IF e1.fromhost_addr.is_some
        THEN [e1 EXCEPT !.m.mem = store32(e1.m.mem, e1.fromhost_addr.v, value).mem]
        ELSE e1])
    ) : e \in {e_in} })

\* SimEnv::check_tohost: the environment after the poll and the Option returned
check_tohost(e_in) == Eval({ (
    IF ~e.tohost_addr.is_some THEN [e |-> e, ret |-> None]
    ELSE Let([r \in {load32(e.m.mem, e.tohost_addr.v)} |->
             IF r.ok /\ r.val /= 0
             THEN [e |-> acknowledge_tohost(e, r.val), ret |-> Some(r.val)]
             ELSE [e |-> e, ret |-> None]])
    ) : e \in {e_in} })

\* A plausible slip: a cap of 0 taken literally instead of as the default.
effective_max_literal(max_instructions) == max_instructions

\* run_isa_test: the step cap in force
effective_max(max_instructions_in) == Eval({ (
    IF max_instructions > 0 THEN max_instructions ELSE 1000000
    ) : max_instructions \in {max_instructions_in} })

\* The body of the polling loop of run_isa_test: one step, a poll, and a
\* second poll when the step left the core not Running.  done says whether
\* the loop is left (return or break), result what is then returned, polls
\* the Options the polls returned, e1 the environment between the step and
\* the first poll.
run_isa_test_body(e_in) == Eval({ (
    Let([e1 \in {SimEnv_step(e)} |->
    Let([p1 \in {check_tohost(e1)} |->
        IF p1.ret.is_some
        THEN [e |-> p1.e, done |-> TRUE, result |-> from_tohost(p1.ret.v),
              polls |-> << p1.ret >>, e1 |-> e1]
        ELSE IF e1.m.state /= Running
        THEN Let([p2 \in {check_tohost(p1.e)} |->
                 [e |-> p2.e, done |-> TRUE,
                  result |-> IF p2.ret.is_some THEN from_tohost(p2.ret.v) ELSE Timeout,
                  polls |-> << p1.ret, p2.ret >>, e1 |-> e1]])
        ELSE [e |-> p1.e, done |-> FALSE, result |-> Timeout, polls |-> << p1.ret >>, e1 |-> e1]])])
    ) : e \in {e_in} })

\* A plausible slip: the loop of CpuCore::run ended by its range only.
run_finished_cap_only(st, executed, max_instructions) == executed = max_instructions

\* CpuCore::run: after a step and the increment of the counter the loop
\* ends when the state the step returned is not Running or its range
\* 0 .. max_instructions is exhausted
run_finished(st, executed, max_instructions) ==
    st /= Running \/ executed = max_instructions

\* u64::MAX, the cap of an unlimited run: the largest integer of the
\* checker stands for it, no run of the model comes near it
U64_MAX == 2147483647

\* SimEnv::run_until_halt: the cap handed to SimEnv::run
run_until_halt_max(config_in) == Eval({ (
    IF config.max_instructions > 0 THEN config.max_instructions ELSE U64_MAX
    ) : config \in {config_in} })

\* The guest images of the environment: ADDI x1, x0, v at 0 and
\* SW x1, 48(x0) at 4, followed by a jump to itself (spin), an all-zero
\* word (halt), a second SW x1, 48(x0) and then the jump (again), or
\* SW x1, 52(x0), a guest store to fromhost, and then the jump (echo).  The
\* mailbox words at 48 (tohost) and 52 (fromhost) hold image bytes before
\* the environment clears them.
SimWordAt(a_in, v_in, tail_in) == Eval({ (
    IF a = 0 THEN ADDI_X1(v)
    ELSE IF a = 4 THEN SW_X1_TOHOST
    ELSE IF a = 8 THEN (IF tail = "spin" THEN JAL_SELF ELSE IF tail = "halt" THEN 0
                        ELSE IF tail = "again" THEN SW_X1_TOHOST ELSE SW_X1_FROMHOST)
    ELSE IF a = 12 /\ tail \in {"again", "echo"} THEN JAL_SELF
    ELSE 0
    ) : a \in {a_in}, v \in {v_in}, tail \in {tail_in} })
SimImage(v_in, tail_in) == Eval({ (
    [base_addr |-> 0,
     data |-> [i \in 0 .. MemSize - 1 |->
                  IF i \in 48 .. 55 THEN (i * 37 + 129) % 256
                  ELSE to_le_byte(SimWordAt(i - (i % 4), v, tail), i % 4)]]
    ) : v \in {v_in}, tail \in {tail_in} })
SimMailboxes ==
    { [tohost_addr |-> t, fromhost_addr |-> h] :
          t \in {None, Some(48)}, h \in {None, Some(52)} }

(***************************************************************************)
(* The state machine.  hist and the counters are history variables: hist   *)
(* holds the records of the last two operations, each with the observable  *)
(* state it started from and the trap entries it made.                     *)
(***************************************************************************)
M == [isa |-> isa, x |-> x, f |-> f, csr |-> csr, privilege |-> privilege, pc |-> pc,
      state |-> state, mem |-> mem, ev |-> << >>]

Push(h, r) == IF Len(h) < 2 THEN Append(h, r) ELSE << h[2], r >>

Commit(m2, r, host) ==
    /\ isa' = isa
    /\ x' = m2.x
    /\ f' = m2.f
    /\ csr' = m2.csr
    /\ privilege' = m2.privilege
    /\ pc' = m2.pc
    /\ state' = m2.state
    /\ mem' = m2.mem
    /\ hist' = Push(hist, r)
    /\ steps' = steps + 1
    /\ host_ops' = host_ops + host
    /\ sim' = sim
    /\ registry' = registry

OpRecord(op, m2, s, arg) ==
    [op |-> op, pre |-> View(M), ev |-> m2.ev, fetched |-> s.fetched, decoded |-> s.decoded,
     claimed |-> s.claimed, ret |-> m2.state, arg |-> arg]
NoStep == [fetched |-> FALSE, decoded |-> NoInstr, claimed |-> FALSE]

\* The outcome of the soft-float library matters only to the instructions that call it.
SoftChoices ==
    Let([w \in {load32(mem, pc)} |->
        IF state = Running /\ w.ok /\ decode(isa, w.val).instr.op \in SoftOps
        THEN SoftFloatOutcomes
        ELSE {CHOOSE o \in SoftFloatOutcomes : o.flags = 0}])

\* The simulation environment's part of the state: the SimEnv fields beside
\* the core and memory, the position inside run_isa_test (phase idle, loop
\* for the polling loop, run for the loop of CpuCore::run) with its locals
\* max, start and the iteration count i, and history: the last return, the
\* last two polls, and what the last iteration saw.
NoReturn ==
    [is_some |-> FALSE, result |-> Timeout, reported |-> 0, arg |-> 0, iters |-> 0, by |-> "",
     observed |-> None]
NoIteration == [is_some |-> FALSE, st |-> Running, after_step |-> None, npolls |-> 0]
NoSim ==
    [tohost_addr |-> None, fromhost_addr |-> None, instructions_executed |-> 0,
     phase |-> "idle", max |-> 0, start |-> 0, i |-> 0,
     ret |-> NoReturn, calls |-> 0, ops |-> 0, polls |-> << >>, stepped |-> FALSE,
     it |-> NoIteration]

InitWith(e, w0, x1v, p, entry_pc) ==
    /\ isa = e
    /\ x = [r \in Regs |-> IF r = 1 THEN x1v ELSE 0]
    /\ f = Construct_f(e)
    /\ csr = ApplyWrites(Construct_csr(e), p.writes, 1)
    /\ privilege = p.privilege
    /\ pc = entry_pc
    /\ state = Running
    /\ mem = InitMem(w0)
    /\ hist = << >>
    /\ steps = 0
    /\ host_ops = 0
    /\ sim = NoSim
    /\ registry = DecoderRegistry_new

Init ==
    \E e \in IsaConfigs : \E w0 \in EntryWords(e) : \E x1v \in X1Values : \E p \in HostProfiles :
        InitWith(e, w0, x1v, p, 0)

\* CpuCore::step called by the host
Step ==
    /\ steps < MaxSteps
    /\ \E soft \in SoftChoices :
          \E s \in {step_r(M, soft)} :
              Commit(s.m, OpRecord("step", s.m, s, << >>), 0)

\* CpuCore::write_reg called by the host
HostWriteReg ==
    /\ steps < MaxSteps
    /\ host_ops < MaxHostOps
    /\ \E reg \in {0, 1} : \E value \in {W(\hDEAD, \hBEEF)} :
          \E m2 \in {write_reg(M, reg, value)} :
              Commit(m2, OpRecord("write_reg", m2, NoStep, << reg, value >>), 1)

\* CpuCore::set_state called by the host
HostSetState ==
    /\ steps < MaxSteps
    /\ host_ops < MaxHostOps
    /\ \E st \in {Halted} :
          \E m2 \in {set_state(M, st)} :
              Commit(m2, OpRecord("set_state", m2, NoStep, << st >>), 1)

\* CpuCore::take_trap called by the host to deliver an interrupt
HostTakeTrap ==
    /\ steps < MaxSteps
    /\ host_ops < MaxHostOps
    /\ \E cause \in {"MachineTimerInterrupt"} : \E tval \in {0} :
          \E m2 \in {take_trap(M, cause, tval)} :
              Commit(m2, OpRecord("take_trap", m2, NoStep, << cause, tval, pc >>), 1)

Next == Step \/ HostWriteReg \/ HostSetState \/ HostTakeTrap

Spec == Init /\ [][Next]_vars

(***************************************************************************)
(* Trap entry from every privilege mode, mstatus, mtvec mode and cause:    *)
(* one trap entry by the host, at any point among the steps of a core      *)
(* whose handler holds MRET.                                               *)
(***************************************************************************)
TrapMstatus == {0, \h0008, \h0080, \h1000, \h1888, W(\h8000, \h6880), -1}
TrapProfiles ==
    { [privilege |-> pr,
       writes |-> << <<CSR_MSTATUS, ms>>, <<CSR_MTVEC, tv>>, <<CSR_MEDELEG, dg>>, <<CSR_MIDELEG, dg>> >>] :
      pr \in {"User", "Supervisor", "Machine"}, ms \in TrapMstatus, tv \in {32, 33, 34, 35},
      dg \in {0, -1} }

InitTrap ==
    \E p \in TrapProfiles : InitWith(CfgFull, W(\h0050, \h8013), 33, p, 8)

\* CpuCore::take_trap_at called by the host
TrapEntryAt ==
    /\ steps < MaxSteps
    /\ host_ops = 0
    /\ \E cause \in TrapCause : \E tval \in {85} : \E epc \in {pc, 12} :
          \E m2 \in {take_trap_at(M, cause, tval, epc)} :
              Commit(m2, OpRecord("take_trap_at", m2, NoStep, << cause, tval, epc >>), 1)

\* CpuCore::take_trap called by the host
TrapEntry ==
    /\ steps < MaxSteps
    /\ host_ops = 0
    /\ \E cause \in Interrupts : \E tval \in {0} :
          \E m2 \in {take_trap(M, cause, tval)} :
              Commit(m2, OpRecord("take_trap", m2, NoStep, << cause, tval, pc >>), 1)

NextTrap == TrapEntryAt \/ TrapEntry \/ Step

SpecTrap == InitTrap /\ [][NextTrap]_vars

(***************************************************************************)
(* The simulation environment as a state machine: SimEnv::from_config      *)
(* builds it, the host calls run_isa_test (whose loops advance one         *)
(* iteration per action), SimEnv::step and SimEnv::check_tohost.           *)
(***************************************************************************)
MaxCalls == 2
MaxSimOps == 2
SimCaps == {0, 1, 2, 3}

Env == [m |-> M, tohost_addr |-> sim.tohost_addr, fromhost_addr |-> sim.fromhost_addr,
        instructions_executed |-> sim.instructions_executed]

\* The word a mailbox address names, when there is one and it can be read
Mailbox(mem_, addr) ==
    IF ~addr.is_some THEN None
    ELSE Let([r \in {load32(mem_, addr.v)} |-> IF r.ok THEN Some(r.val) ELSE None])

\* The record of a poll: the tohost word before it, the Option it returned,
\* whether no step was taken since the poll before, the mailboxes after it
PollRecord(before, ret, quiet, after) ==
    [before |-> Mailbox(before.m.mem, before.tohost_addr), ret |-> ret, quiet |-> quiet,
     tohost |-> Mailbox(after.m.mem, after.tohost_addr),
     fromhost |-> Mailbox(after.m.mem, after.fromhost_addr)]

SimCommit(e2, s2) ==
    /\ isa' = isa
    /\ x' = e2.m.x
    /\ f' = e2.m.f
    /\ csr' = e2.m.csr
    /\ privilege' = e2.m.privilege
    /\ pc' = e2.m.pc
    /\ state' = e2.m.state
    /\ mem' = e2.m.mem
    /\ sim' = [s2 EXCEPT !.instructions_executed = e2.instructions_executed]
    /\ UNCHANGED << hist, steps, host_ops, registry >>

\* SimEnv::from_config: the image is loaded, the core is built at the entry
\* PC and the mailboxes are cleared
from_config(image, boxes) ==
    clear_htif_mailboxes(
        [m |-> [isa |-> CfgFull, x |-> [r \in Regs |-> 0], f |-> Construct_f(CfgFull),
                csr |-> Construct_csr(CfgFull), privilege |-> "Machine", pc |-> 0,
                state |-> Running, mem |-> image, ev |-> << >>],
         tohost_addr |-> boxes.tohost_addr, fromhost_addr |-> boxes.fromhost_addr,
         instructions_executed |-> 0])

InitSim ==
    \E v \in SimValues : \E tail \in SimTails : \E boxes \in SimMailboxes :
        \E e \in {from_config(SimImage(v, tail), boxes)} :
            /\ isa = e.m.isa
            /\ x = e.m.x
            /\ f = e.m.f
            /\ csr = e.m.csr
            /\ privilege = e.m.privilege
            /\ pc = e.m.pc
            /\ state = e.m.state
            /\ mem = e.m.mem
            /\ hist = << >>
            /\ steps = 0
            /\ host_ops = 0
            /\ sim = [NoSim EXCEPT !.tohost_addr = e.tohost_addr, !.fromhost_addr = e.fromhost_addr]
            /\ registry = DecoderRegistry_new

\* run_isa_test is called: the cap is fixed; without a tohost address the
\* call continues in CpuCore::run, otherwise the mailboxes are cleared and
\* the polling loop is entered.  A loop over 0 .. max with max = 0 has no
\* iteration: the call returns Timeout with 0 steps at once.
RunIsaTest ==
    /\ sim.phase = "idle"
    /\ sim.calls < MaxCalls
    /\ \E max_instructions \in SimCaps :
          \E max \in {effective_max(max_instructions)} :
              \E e2 \in {IF sim.tohost_addr.is_some THEN clear_htif_mailboxes(Env) ELSE Env} :
                  SimCommit(e2, [sim EXCEPT
                      !.phase = IF max = 0 THEN "idle"
                                ELSE IF sim.tohost_addr.is_some THEN "loop" ELSE "run",
                      !.max = max,
                      !.start = sim.instructions_executed,
                      !.i = 0,
                      !.calls = @ + 1,
                      !.ret = IF max = 0
                              THEN [NoReturn EXCEPT !.is_some = TRUE, !.arg = max_instructions,
                                                    !.by = "cap"]
                              ELSE [NoReturn EXCEPT !.arg = max_instructions],
                      !.it = NoIteration])

\* One iteration of the polling loop of run_isa_test, with the return when
\* the body returns or breaks or the cap is reached
RunIsaTestIteration ==
    /\ sim.phase = "loop"
    /\ sim.i < MaxSteps
    /\ \E b \in {run_isa_test_body(Env)} :
          \E finished \in {b.done \/ sim.i + 1 = sim.max} :
              SimCommit(b.e,
                  [sim EXCEPT
                      !.i = @ + 1,
                      !.phase = IF finished THEN "idle" ELSE "loop",
                      !.ret = IF ~finished THEN @
                              ELSE [is_some |-> TRUE, result |-> b.result,
                                    reported |-> b.e.instructions_executed - sim.start,
                                    arg |-> @.arg, iters |-> sim.i + 1,
                                    by |-> IF b.polls[Len(b.polls)].is_some THEN "poll"
                                           ELSE IF b.done THEN "break" ELSE "cap",
                                    observed |-> b.polls[Len(b.polls)]],
                      !.polls = IF Len(b.polls) = 1
                                THEN << PollRecord(b.e1, b.polls[1], FALSE, b.e) >>
                                ELSE << PollRecord(b.e1, b.polls[1], FALSE, b.e1),
                                        PollRecord(b.e1, b.polls[2], TRUE, b.e) >>,
                      !.stepped = FALSE,
                      !.it = [is_some |-> TRUE, st |-> b.e1.m.state,
                              after_step |-> Mailbox(b.e1.m.mem, b.e1.tohost_addr),
                              npolls |-> Len(b.polls)]])

\* One iteration of the loop of CpuCore::run, called through SimEnv::run
\* by run_isa_test when no tohost address is known; when the loop ends the
\* counter is added to instructions_executed and run_isa_test returns
CpuRunIteration ==
    /\ sim.phase = "run"
    /\ sim.i < MaxSteps
    /\ \E m2 \in {step(M, SimSoft)} :
          \E executed \in {sim.i + 1} :
              \E finished \in {m2.state /= Running \/ executed = sim.max} :
                  \E e2 \in {[Env EXCEPT !.m = m2,
                                         !.instructions_executed =
                                             IF finished THEN @ + executed ELSE @]} :
                      \E delta \in {e2.instructions_executed - sim.start} :
                          SimCommit(e2,
                              [sim EXCEPT
                                  !.i = executed,
                                  !.phase = IF finished THEN "idle" ELSE "run",
                                  !.ret = IF ~finished THEN @
                                          ELSE [is_some |-> TRUE, result |-> Timeout,
                                                reported |-> IF delta = 0 THEN executed ELSE delta,
                                                arg |-> @.arg, iters |-> executed,
                                                by |-> IF executed = sim.max /\ m2.state = Running
                                                       THEN "cap" ELSE "break",
                                                observed |-> None],
                                  !.stepped = TRUE])

\* SimEnv::step called by the host
SimStep ==
    /\ sim.phase = "idle"
    /\ sim.ops < MaxSimOps
    /\ \E e2 \in {SimEnv_step(Env)} :
          SimCommit(e2, [sim EXCEPT !.ops = @ + 1, !.stepped = TRUE])

\* SimEnv::check_tohost called by the host
CheckTohost ==
    /\ sim.phase = "idle"
    /\ sim.ops < MaxSimOps
    /\ \E p \in {check_tohost(Env)} :
          SimCommit(p.e, [sim EXCEPT !.ops = @ + 1,
                                     !.polls = IF Len(@) < 2
                                               THEN Append(@, PollRecord(Env, p.ret, ~sim.stepped, p.e))
                                               ELSE << @[2], PollRecord(Env, p.ret, ~sim.stepped, p.e) >>,
                                     !.stepped = FALSE])

NextSim == RunIsaTest \/ RunIsaTestIteration \/ CpuRunIteration \/ SimStep \/ CheckTohost

SpecSim == InitSim /\ [][NextSim]_vars

(***************************************************************************)
(* The run helpers as a state machine: the host calls CpuCore::run,        *)
(* SimEnv::run or SimEnv::run_until_halt on a core whose program holds     *)
(* EBREAK, ECALL, WFI and an entry word; the loop of CpuCore::run advances *)
(* one iteration per action.  sim holds the configuration, the counter of  *)
(* the environment, the position in the call and its history: the state    *)
(* the call found, the state after each step, the instruction each step    *)
(* executed and the pair returned.                                         *)
(***************************************************************************)
RunCaps == {0, 1, 2, 3}
RunEntryWords == {W(\h0050, \h8013), JAL_SELF, 0}
RunEntries == {0, 8, 16, 60}
RunConfigs ==
    { [max_instructions |-> n, stop_on_trap |-> b] : n \in {0, 2}, b \in BOOLEAN }
NoRun ==
    [config |-> [max_instructions |-> 0, stop_on_trap |-> FALSE], instructions_executed |-> 0,
     phase |-> "idle", caller |-> "", max |-> 0, executed |-> 0, entered |-> Running,
     before |-> 0, after |-> << >>, ops |-> << >>,
     ret |-> [is_some |-> FALSE, count |-> 0, state |-> Running], calls |-> 0]

InitRun ==
    \E w0 \in RunEntryWords : \E p \in HostProfiles : \E entry_pc \in RunEntries :
        \E config \in RunConfigs :
            /\ isa = CfgFull
            /\ x = [r \in Regs |-> IF r = 1 THEN 33 ELSE 0]
            /\ f = Construct_f(CfgFull)
            /\ csr = ApplyWrites(Construct_csr(CfgFull), p.writes, 1)
            /\ privilege = p.privilege
            /\ pc = entry_pc
            /\ state = Running
            /\ mem = InitMem(w0)
            /\ hist = << >>
            /\ steps = 0
            /\ host_ops = 0
            /\ sim = [NoRun EXCEPT !.config = config]
            /\ registry = DecoderRegistry_new

\* The entry into a run helper: the counter starts at 0; a loop over
\* 0 .. max with max = 0 has no iteration and the call returns at once
RunCall(caller, max) ==
    /\ sim.phase = "idle"
    /\ sim.calls < MaxCalls
    /\ sim' = [sim EXCEPT !.phase = IF max = 0 THEN "idle" ELSE "run",
                          !.caller = caller,
                          !.max = max,
                          !.executed = 0,
                          !.entered = state,
                          !.before = sim.instructions_executed,
                          !.after = << >>,
                          !.ops = << >>,
                          !.calls = @ + 1,
                          !.ret = [is_some |-> max = 0, count |-> 0, state |-> state]]
    /\ UNCHANGED << isa, x, f, csr, privilege, pc, state, mem, hist, steps, host_ops,
                    registry >>

\* CpuCore::run called by the host
CpuRun == \E max_instructions \in RunCaps : RunCall("CpuCore::run", max_instructions)

\* SimEnv::run called by the host
SimRun == \E max_instructions \in RunCaps : RunCall("SimEnv::run", max_instructions)

\* SimEnv::run_until_halt called by the host
RunUntilHalt == RunCall("SimEnv::run_until_halt", run_until_halt_max(sim.config))

\* One iteration of the loop of CpuCore::run; when the loop ends the pair
\* (executed, state) is returned and SimEnv::run adds executed to
\* instructions_executed
RunIteration ==
    /\ sim.phase = "run"
    /\ steps < MaxSteps
    /\ \E soft \in SoftChoices :
          \E s \in {step_r(M, soft)} :
              \E executed \in {sim.executed + 1} :
                  \E finished \in {run_finished(s.m.state, executed, sim.max)} :
                      /\ isa' = isa
                      /\ x' = s.m.x
                      /\ f' = s.m.f
                      /\ csr' = s.m.csr
                      /\ privilege' = s.m.privilege
                      /\ pc' = s.m.pc
                      /\ state' = s.m.state
                      /\ mem' = s.m.mem
                      /\ hist' = Push(hist, OpRecord("step", s.m, s, << >>))
                      /\ steps' = steps + 1
                      /\ host_ops' = host_ops
                      /\ registry' = registry
                      /\ sim' = [sim EXCEPT
                             !.executed = executed,
                             !.phase = IF finished THEN "idle" ELSE "run",
                             !.after = Append(@, s.m.state),
                             !.ops = Append(@, [op |-> IF s.fetched THEN s.decoded.instr.op
                                                       ELSE "none",
                                                ran |-> state = Running]),
                             !.ret = IF finished
                                     THEN [is_some |-> TRUE, count |-> executed,
                                           state |-> s.m.state]
                                     ELSE @,
                             !.instructions_executed =
                                 IF finished /\ sim.caller /= "CpuCore::run"
                                 THEN @ + executed ELSE @]

NextRun == CpuRun \/ SimRun \/ RunUntilHalt \/ RunIteration

SpecRun == InitRun /\ [][NextRun]_vars

(***************************************************************************)
(* The decoder registry as a state machine: the host builds a registry     *)
(* (DecoderRegistry::new, with_rv32i or IsaConfig::build for a set of      *)
(* in-tree extensions), registers further decoders and decodes a word.     *)
(* hist holds the record of the last call; a run ends with its decode.     *)
(***************************************************************************)
MaxRegistered == 2
InTreeExtensions == {"M", "F", "Zicsr", "Priv"}

\* Decoders of a host: the custom decoder of isa/tests.rs, a decoder that
\* keeps the defaults of the trait (no opcode list, no overlap), a wildcard
\* that allows overlap and takes every OP-IMM word for an ANDI, a decoder
\* that shares three opcodes, none of them the opcode of its table's
\* entries, and a decoder that allows no overlap and lists an opcode beyond
\* the 128 buckets
DefaultDecoder == TableDrivenDecoder("Default", << >>, None, FALSE)
WildDecoder ==
    TableDrivenDecoder("Wild", << InstrDef("ANY_IMM", \h7F, OP_IMM, "Andi", "rd_rs1_imm_i") >>,
                       None, TRUE)
SharingDecoder ==
    TableDrivenDecoder("Sharing", ZICSR_INSTRS, Some(<< OP_CUSTOM_0, OP_FP, OP_REG >>), TRUE)
FarDecoder == TableDrivenDecoder("Far", << >>, Some(<< OP_REG + 128, OP_CUSTOM_0 >>), FALSE)
HostDecoders == {CustomDecoder, DefaultDecoder, WildDecoder, SharingDecoder, FarDecoder}

DecodeWords ==
    { W(\h0050, \h8013),  \* ADDI x0, x1, 5
      W(\h0210, \h8033),  \* MUL x0, x1, x1
      W(\h0010, \h8033),  \* ADD x0, x1, x1
      W(\h0020, \h81D3),  \* FADD.S f3, f1, f2, rne
      W(\h3000, \h9073),  \* CSRRW x0, mstatus, x1
      MRET_ENCODING,
      W(\h0000, \h0073),  \* ECALL
      W(\h1234, \h500B),  \* custom-0 with operand bits
      0 }                 \* no table entry

InitRegistry ==
    InitWith(CfgNew, W(\h0050, \h8013), 33, [privilege |-> "Machine", writes |-> << >>], 0)

RegistryCommit(reg2, r, calls) ==
    /\ registry' = reg2
    /\ hist' = << r >>
    /\ host_ops' = host_ops + calls
    /\ UNCHANGED << isa, x, f, csr, privilege, pc, state, mem, steps, sim >>

\* The last call was a decode
Decoded == IF hist = << >> THEN FALSE ELSE hist[1].op = "decode"

\* DecoderRegistry::with_rv32i called by the host
WithRv32i ==
    /\ hist = << >>
    /\ RegistryCommit(with_rv32i, [op |-> "with_rv32i", pre |-> registry], 0)

\* IsaConfig::build called by the host on a configuration of in-tree
\* extensions: the list of conflicts when there is one, else the registry
\* with RV32I and the enabled extensions registered
Build ==
    /\ hist = << >>
    /\ \E exts \in SUBSET InTreeExtensions :
          \E conflicts \in {detect_conflicts(exts)} :
              RegistryCommit(IF conflicts = {} THEN IsaConfig_build(exts) ELSE registry,
                             [op |-> "build", pre |-> registry, exts |-> exts,
                              conflicts |-> conflicts], 0)

\* DecoderRegistry::register called by the host
Register ==
    /\ host_ops < MaxRegistered
    /\ ~Decoded
    /\ \E decoder \in HostDecoders :
          \E r \in {register(registry, decoder)} :
              RegistryCommit(r.reg, [op |-> "register", pre |-> registry, decoder |-> decoder,
                                     ok |-> r.ok, err |-> r.err], 1)

\* DecoderRegistry::decode called by the host
Decode ==
    /\ ~Decoded
    /\ \E raw \in DecodeWords :
        RegistryCommit(registry, [op |-> "decode", pre |-> registry, raw |-> raw,
                                  ret |-> Registry_decode(registry, raw)], 0)

NextRegistry == WithRv32i \/ Build \/ Register \/ Decode

SpecRegistry == InitRegistry /\ [][NextRegistry]_vars

(***************************************************************************)
(* A memory region as a state machine: the host makes a FlatMemory of some *)
(* base and size, stores to it and loads from it.  hist holds the records  *)
(* of the last two calls; a run ends with its load.                        *)
(***************************************************************************)
RegionSize == 8
MaxStores == 1
RegionSizes == {RegionSize, RegionSize - 3}
RegionBases == {0, 6, W(\hFFFF, \hFFF8)}
RegionOffsets == {-1, 0, 1, 2, 4}
AccessValues(bytes) ==
    IF bytes = 1 THEN {\hA5, 0}
    ELSE IF bytes = 2 THEN {\hBEEF, 1} ELSE {W(\hDEAD, \hBEEF), 1}

\* FlatMemory::new, and bytes written over its zeroes by FlatMemory::fill
\* and write_bytes
Region(base, size) ==
    [base_addr |-> base, data |-> [i \in 0 .. size - 1 |-> (i * 37 + 129) % 256]]

InitRegion ==
    \E base \in RegionBases : \E size \in RegionSizes :
        /\ isa = CfgNew
        /\ x = [r \in Regs |-> 0]
        /\ f = Construct_f(CfgNew)
        /\ csr = Construct_csr(CfgNew)
        /\ privilege = "Machine"
        /\ pc = base
        /\ state = Running
        /\ mem = Region(base, size)
        /\ hist = << >>
        /\ steps = 0
        /\ host_ops = 0
        /\ sim = NoSim
        /\ registry = DecoderRegistry_new

RegionCommit(mem2, r, stores) ==
    /\ mem' = mem2
    /\ hist' = Push(hist, r)
    /\ host_ops' = host_ops + stores
    /\ UNCHANGED << isa, x, f, csr, privilege, pc, state, steps, sim, registry >>

Loaded == IF hist = << >> THEN FALSE ELSE hist[Len(hist)].op = "load"

StoreRecord(bytes, addr, value, r) ==
    [op |-> "store", bytes |-> bytes, addr |-> addr, value |-> value, ok |-> r.ok,
     err |-> r.err, pre |-> mem, post |-> r.mem]
LoadRecord(bytes, addr, r) ==
    [op |-> "load", bytes |-> bytes, addr |-> addr, value |-> r.val, ok |-> r.ok,
     err |-> r.err, pre |-> mem, post |-> mem]

\* Memory::store8 called by the host
Store8 ==
    /\ host_ops < MaxStores
    /\ ~Loaded
    /\ \E off \in RegionOffsets : \E value \in AccessValues(1) :
          \E addr \in {wrapping_add(mem.base_addr, off)} :
              \E r \in {store8(mem, addr, value)} :
                  RegionCommit(r.mem, StoreRecord(1, addr, value, r), 1)

\* Memory::store16 called by the host
Store16 ==
    /\ host_ops < MaxStores
    /\ ~Loaded
    /\ \E off \in RegionOffsets : \E value \in AccessValues(2) :
          \E addr \in {wrapping_add(mem.base_addr, off)} :
              \E r \in {store16(mem, addr, value)} :
                  RegionCommit(r.mem, StoreRecord(2, addr, value, r), 1)

\* Memory::store32 called by the host
Store32 ==
    /\ host_ops < MaxStores
    /\ ~Loaded
    /\ \E off \in RegionOffsets : \E value \in AccessValues(4) :
          \E addr \in {wrapping_add(mem.base_addr, off)} :
              \E r \in {store32(mem, addr, value)} :
                  RegionCommit(r.mem, StoreRecord(4, addr, value, r), 1)

\* Memory::load8 called by the host
Load8 ==
    /\ ~Loaded
    /\ \E off \in RegionOffsets :
          \E addr \in {wrapping_add(mem.base_addr, off)} :
              RegionCommit(mem, LoadRecord(1, addr, load8(mem, addr)), 0)

\* Memory::load16 called by the host
Load16 ==
    /\ ~Loaded
    /\ \E off \in RegionOffsets :
          \E addr \in {wrapping_add(mem.base_addr, off)} :
              RegionCommit(mem, LoadRecord(2, addr, load16(mem, addr)), 0)

\* Memory::load32 called by the host
Load32 ==
    /\ ~Loaded
    /\ \E off \in RegionOffsets :
          \E addr \in {wrapping_add(mem.base_addr, off)} :
              RegionCommit(mem, LoadRecord(4, addr, load32(mem, addr)), 0)

NextRegion == Store8 \/ Store16 \/ Store32 \/ Load8 \/ Load16 \/ Load32

SpecRegion == InitRegion /\ [][NextRegion]_vars

(***************************************************************************)
(* A guest that stores and loads back: a half-word or word store through   *)
(* x1 at the entry address, a load through x1 after it, x1 pointing at     *)
(* aligned and misaligned places of the data bytes and across the end of   *)
(* the region.  The host steps the core.                                   *)
(***************************************************************************)
AccessBases == {0, W(\h8000, \h0000)}
AccessPointers == {48, 49, 50, 51, 58, 61, 62}
AccessRegValues == {W(\hDEAD, \hBEEF), W(\h8000, \h7F01)}

AccessByte(i, sw, lw) ==
    IF i \in 0 .. 3 THEN to_le_byte(sw, i)
    ELSE IF i \in 4 .. 7 THEN to_le_byte(lw, i - 4)
    ELSE IF i >= 48 THEN (i * 37 + 129) % 256
    ELSE 0
AccessMem(base, sw, lw) ==
    [base_addr |-> base, data |-> [i \in 0 .. MemSize - 1 |-> AccessByte(i, sw, lw)]]

InitAccess ==
    \E base \in AccessBases : \E sw \in AccessStoreWords : \E lw \in AccessLoadWords :
        \E p \in AccessPointers : \E v \in AccessRegValues :
            /\ isa = CfgNew
            /\ x = [r \in Regs |-> IF r = 1 THEN wrapping_add(base, p) ELSE IF r = 2 THEN v ELSE 0]
            /\ f = Construct_f(CfgNew)
            /\ csr = Construct_csr(CfgNew)
            /\ privilege = "Machine"
            /\ pc = base
            /\ state = Running
            /\ mem = AccessMem(base, sw, lw)
            /\ hist = << >>
            /\ steps = 0
            /\ host_ops = 0
            /\ sim = NoSim
            /\ registry = DecoderRegistry_new

\* CpuCore::step called by the host on the store-and-load guest
AccessStep == Step

NextAccess == AccessStep

SpecAccess == InitAccess /\ [][NextAccess]_vars

(***************************************************************************)
(* A guest that calls and returns: a JAL at the entry address and the same *)
(* JALR in every other word of the region.  The host steps the core.       *)
(***************************************************************************)
CallBases == {0, W(\h8000, \h0000)}
CallEntries == {0, 16}
CallRegValues == {0, 33}

CallByte(i, entry, jal, ret) ==
    IF i \in entry .. entry + 3 THEN to_le_byte(jal, i - entry) ELSE to_le_byte(ret, i % 4)
CallMem(base, entry, jal, ret) ==
    [base_addr |-> base, data |-> [i \in 0 .. MemSize - 1 |-> CallByte(i, entry, jal, ret)]]

InitCall ==
    \E base \in CallBases : \E entry \in CallEntries : \E jal \in CallWords :
        \E ret \in ReturnWords : \E v \in CallRegValues :
            /\ isa = CfgNew
            /\ x = [r \in Regs |-> IF r = 1 THEN v ELSE 0]
            /\ f = Construct_f(CfgNew)
            /\ csr = Construct_csr(CfgNew)
            /\ privilege = "Machine"
            /\ pc = wrapping_add(base, entry)
            /\ state = Running
            /\ mem = CallMem(base, entry, jal, ret)
            /\ hist = << >>
            /\ steps = 0
            /\ host_ops = 0
            /\ sim = NoSim
            /\ registry = DecoderRegistry_new

\* CpuCore::step called by the host on the call-and-return guest
CallStep == Step

NextCall == CallStep

SpecCall == InitCall /\ [][NextCall]_vars

(***************************************************************************)
(* A guest that divides: one of DIV/DIVU/REM/REMU x3, x1, x2 at the entry  *)
(* address of a core with M, the operands in x1 and x2.  The host steps    *)
(* the core.                                                               *)
(***************************************************************************)
DivValues == {0, 1, -1, MinInt32, 7, -7, 2, W(\h7FFF, \hFFFF), W(\hC000, \h0001)}

InitDiv ==
    \E w0 \in DivWords : \E a \in DivValues : \E b \in DivValues :
        /\ isa = CfgFull
        /\ x = [r \in Regs |-> IF r = 1 THEN a ELSE IF r = 2 THEN b ELSE 0]
        /\ f = Construct_f(CfgFull)
        /\ csr = Construct_csr(CfgFull)
        /\ privilege = "Machine"
        /\ pc = 0
        /\ state = Running
        /\ mem = InitMem(w0)
        /\ hist = << >>
        /\ steps = 0
        /\ host_ops = 0
        /\ sim = NoSim
        /\ registry = DecoderRegistry_new

\* CpuCore::step called by the host on the dividing guest
DivStep == Step

NextDiv == DivStep

SpecDiv == InitDiv /\ [][NextDiv]_vars

(***************************************************************************)
(* A floating-point guest on a core with F: an F instruction on f1 and f2  *)
(* at the entry address, a read of one of the three F CSRs or a second F   *)
(* instruction after it, fcsr set by the host beforehand.  The host steps  *)
(* the core.                                                               *)
(***************************************************************************)
FpValues ==
    { 0,                    \* +0
      MinInt32,             \* -0
      W(\h3F80, \h0000),    \* 1.0
      W(\hBF80, \h0000),    \* -1.0
      CANONICAL_NAN,
      W(\hFFC0, \h0001),    \* a quiet NaN with sign and payload
      W(\h7FA0, \h0000) }   \* a signaling NaN
FcsrValues == {0, \hA1, \h41}

FpByte(i, w0, w1) ==
    IF i \in 4 .. 7 THEN to_le_byte(w1, i - 4) ELSE InitByte(i, w0)
FpMem(w0, w1) == [base_addr |-> 0, data |-> [i \in 0 .. MemSize - 1 |-> FpByte(i, w0, w1)]]

InitFp ==
    \E w0 \in FpFirstWords : \E w1 \in FpSecondWords : \E a \in FpValues : \E b \in FpValues :
        \E fcsr \in FcsrValues :
            /\ isa = CfgFull
            /\ x = [r \in Regs |-> IF r = 1 THEN 33 ELSE 0]
            /\ f = [is_some |-> TRUE,
                    regs |-> [r \in Regs |-> IF r = 1 THEN a ELSE IF r = 2 THEN b ELSE 0]]
            /\ csr = CsrBank_write(Construct_csr(CfgFull), CSR_FCSR, fcsr)
            /\ privilege = "Machine"
            /\ pc = 0
            /\ state = Running
            /\ mem = FpMem(w0, w1)
            /\ hist = << >>
            /\ steps = 0
            /\ host_ops = 0
            /\ sim = NoSim
            /\ registry = DecoderRegistry_new

\* CpuCore::step called by the host on the floating-point guest
FpStep == Step

NextFp == FpStep

SpecFp == InitFp /\ [][NextFp]_vars

(***************************************************************************)
(* Registries of in-tree decoders as a state machine: the host obtains a   *)
(* registry from IsaConfig::build or IsaConfig::build_unchecked, or        *)
(* registers the in-tree decoders itself in an order of its choice, and    *)
(* decodes a word.  hist holds the record of the last call; the record of  *)
(* a decode keeps in how the call that gave the registry, which is the     *)
(* registry the decode leaves.                                             *)
(***************************************************************************)
MaxInTree == 3
InTreeDecoders == {RV32I_DECODER, RV32M_DECODER, RV32F_DECODER, ZICSR_DECODER, PRIV_DECODER}
InTreeTables == RV32I_INSTRS \o RV32M_INSTRS \o RV32F_INSTRS \o ZICSR_INSTRS \o PRIV_INSTRS

\* Words to decode: for every entry of every in-tree table the word with
\* all operand bits clear; for the entries of the opcodes that several
\* decoders list (OP and SYSTEM) also the word with all operand bits set;
\* and words no table has an entry for
SharedOpcodes == {OP_REG, OP_SYSTEM}
BuiltWords ==
    { InTreeTables[i].match_val : i \in 1 .. Len(InTreeTables) }
      \cup { BitOr(InTreeTables[i].match_val, BitNot(InTreeTables[i].mask)) :
               i \in { j \in 1 .. Len(InTreeTables) :
                          BitAnd(InTreeTables[j].match_val, \h7F) \in SharedOpcodes } }
      \cup { 0, -1, W(\h1234, \h500B), W(\h0000, \h4073), W(\h0400, \h0033) }

InitBuilt ==
    InitWith(CfgNew, W(\h0050, \h8013), 33, [privilege |-> "Machine", writes |-> << >>], 0)

\* The last call was a decode of a built registry
DecodedBuilt == IF hist = << >> THEN FALSE ELSE hist[1].op = "decode_built"

\* IsaConfig::build called by the host
BuiltBuild == Build

\* IsaConfig::build_unchecked called by the host on a configuration of
\* in-tree extensions
BuildUnchecked ==
    /\ hist = << >>
    /\ \E exts \in SUBSET InTreeExtensions :
          RegistryCommit(IsaConfig_build_unchecked(exts),
                         [op |-> "build_unchecked", pre |-> registry, exts |-> exts], 0)

\* DecoderRegistry::register called by the host with an in-tree decoder it
\* has not registered yet
RegisterInTree ==
    /\ IF hist = << >> THEN TRUE ELSE hist[1].op = "register_in_tree"
    /\ host_ops < MaxInTree
    /\ \E decoder \in InTreeDecoders \ SeqElems(registry.decoders) :
          \E r \in {register(registry, decoder)} :
              RegistryCommit(r.reg, [op |-> "register_in_tree", name |-> decoder.name,
                                     ok |-> r.ok, exts |-> {}], 1)

\* DecoderRegistry::decode called by the host on the registry it obtained
DecodeBuilt ==
    /\ hist /= << >>
    /\ ~DecodedBuilt
    /\ \E raw \in BuiltWords :
          RegistryCommit(registry, [op |-> "decode_built", raw |-> raw,
                                    how |-> [op |-> hist[1].op, exts |-> hist[1].exts],
                                    ret |-> Registry_decode(registry, raw)], 0)

NextBuilt == BuiltBuild \/ BuildUnchecked \/ RegisterInTree \/ DecodeBuilt

SpecBuilt == InitBuilt /\ [][NextBuilt]_vars

(***************************************************************************)
(* Vocabulary of the properties                                            *)
(***************************************************************************)
TrapEvents == UNION { { hist[i].ev[k] : k \in DOMAIN hist[i].ev } : i \in DOMAIN hist }
HostTrapOps == {"take_trap", "take_trap_at"}
\* The observable state after the i-th recorded operation
PostOf(i) == IF i < Len(hist) THEN hist[i + 1].pre ELSE View(M)
MstatusOf(v) == CsrBank_read(v.csr, CSR_MSTATUS)
MieOf(v) == Bit(MstatusOf(v), 3)
MpieOf(v) == Bit(MstatusOf(v), 7)
MppOf(v) == 2 * Bit(MstatusOf(v), 12) + Bit(MstatusOf(v), 11)
\* The privilege levels of the architecture and their 2-bit encodings
LevelOf(mode) == IF mode = "User" THEN 0 ELSE IF mode = "Supervisor" THEN 1
                 ELSE IF mode = "Machine" THEN 3 ELSE 2
IsMretStep(r) == r.op = "step" /\ r.fetched /\ r.decoded.instr.op = "Mret"

(***************************************************************************)
(* C1: after a trap entry (take_trap / take_trap_at, or a trap raised by   *)
(* a step) from any state, mstatus.MPP is the 2-bit encoding of the        *)
(* privilege mode held before the trap, mstatus.MPIE is the pre-trap       *)
(* mstatus.MIE, mstatus.MIE is 0 and the privilege mode is Machine,        *)
(* whatever medeleg and mideleg contain.                                   *)
(***************************************************************************)
C1_TrapEntrySavesPrivilegeAndMie ==
    \A e \in TrapEvents :
        /\ MppOf(e.post) = LevelOf(e.at.privilege)
        /\ MpieOf(e.post) = MieOf(e.at)
        /\ MieOf(e.post) = 0
        /\ e.post.privilege = "Machine"

\* A trap taken from Supervisor mode with MIE set and the cause delegated in medeleg/mideleg
C1_Witness ==
    \E e \in TrapEvents :
        /\ e.at.privilege = "Supervisor"
        /\ MieOf(e.at) = 1
        /\ CsrBank_read(e.at.csr, CSR_MEDELEG) = -1
        /\ CsrBank_read(e.at.csr, CSR_MIDELEG) = -1
        /\ MppOf(e.post) = 1

(***************************************************************************)
(* C2: take_trap_at(cause, tval, epc) writes epc to mepc, the interrupt    *)
(* bit (2^31 for an interrupt, 0 for an exception) ORed with the cause     *)
(* code to mcause and tval to mtval, and sets PC to mtvec with its low two *)
(* bits cleared, plus 4*code only when the mtvec mode is 1 and the cause   *)
(* is an interrupt; modes 2 and 3 behave as Direct.  take_trap(cause,      *)
(* tval) uses the current PC as epc.                                       *)
(***************************************************************************)
C2_TrapAddress(e) ==
    LET tvec == CsrBank_read(e.at.csr, CSR_MTVEC)
        base == tvec - (tvec % 4)
    IN  IF tvec % 4 = 1 /\ e.cause \in Interrupts
        THEN wrapping_add(base, 4 * code(e.cause))
        ELSE base
C2_TrapEntryWritesCauseAndVector ==
    /\ \A e \in TrapEvents :
          /\ CsrBank_read(e.post.csr, CSR_MEPC) = e.epc
          /\ CsrBank_read(e.post.csr, CSR_MCAUSE) =
                (IF e.cause \in Interrupts THEN MinInt32 + code(e.cause) ELSE code(e.cause))
          /\ CsrBank_read(e.post.csr, CSR_MTVAL) = e.tval
          /\ e.post.pc = C2_TrapAddress(e)
    /\ \A i \in DOMAIN hist :
          hist[i].op \in HostTrapOps =>
             /\ Len(hist[i].ev) = 1
             /\ hist[i].ev[1].cause = hist[i].arg[1]
             /\ hist[i].ev[1].tval = hist[i].arg[2]
             /\ hist[i].ev[1].epc = hist[i].arg[3]
             /\ hist[i].ev[1].at = hist[i].pre
             /\ hist[i].ev[1].post = PostOf(i)
             /\ hist[i].op = "take_trap" => hist[i].ev[1].epc = hist[i].pre.pc

\* An interrupt taken through a vectored mtvec, with an epc that is not the PC
C2_Witness ==
    \E i \in DOMAIN hist :
        /\ hist[i].op = "take_trap_at"
        /\ hist[i].arg[1] = "MachineTimerInterrupt"
        /\ hist[i].arg[3] /= hist[i].pre.pc
        /\ CsrBank_read(hist[i].pre.csr, CSR_MTVEC) = 33
        /\ PostOf(i).pc = 60

(***************************************************************************)
(* C3: executing MRET sets mstatus.MIE to the pre-MRET MPIE, MPIE to 1 and *)
(* MPP to 0, sets PC to mepc, and sets the privilege mode to the mode      *)
(* that the pre-MRET MPP encodes: User for 0, Supervisor for 1, Machine    *)
(* for 3, and Machine again for the reserved encoding 2.                   *)
(***************************************************************************)
C3_ModeReturnedTo(mpp) == IF mpp = 0 THEN "User" ELSE IF mpp = 1 THEN "Supervisor" ELSE "Machine"
C3_MretRestoresDecodedMpp ==
    \A i \in DOMAIN hist :
        IsMretStep(hist[i]) =>
            /\ MieOf(PostOf(i)) = MpieOf(hist[i].pre)
            /\ MpieOf(PostOf(i)) = 1
            /\ MppOf(PostOf(i)) = 0
            /\ PostOf(i).privilege = C3_ModeReturnedTo(MppOf(hist[i].pre))
            /\ PostOf(i).pc = CsrBank_read(hist[i].pre.csr, CSR_MEPC)

\* MRET executed with the reserved encoding in MPP, MPIE clear and MIE set
C3_Witness ==
    \E i \in DOMAIN hist :
        /\ IsMretStep(hist[i])
        /\ MppOf(hist[i].pre) = 2
        /\ MpieOf(hist[i].pre) = 0
        /\ MieOf(hist[i].pre) = 1
        /\ PostOf(i).privilege = "Machine"
        /\ PostOf(i).pc = 10

\* C3 as stated: the privilege mode after MRET is the one whose encoding is
\* the pre-MRET MPP, for every value 0 to 3 of the field.
C3_AsStated ==
    \A i \in DOMAIN hist :
        IsMretStep(hist[i]) =>
            /\ MieOf(PostOf(i)) = MpieOf(hist[i].pre)
            /\ MpieOf(PostOf(i)) = 1
            /\ MppOf(PostOf(i)) = 0
            /\ LevelOf(PostOf(i).privilege) = MppOf(hist[i].pre)
            /\ PostOf(i).pc = CsrBank_read(hist[i].pre.csr, CSR_MEPC)

(***************************************************************************)
(* C4: from any privilege mode p in {User, Supervisor, Machine}, with      *)
(* mstatus.MIE = e and PC = a, a trap entry with epc = a followed by       *)
(* executing MRET at the handler address restores PC = a, privilege mode   *)
(* p and mstatus.MIE = e, and leaves MPIE = 1 and MPP = 0.                 *)
(***************************************************************************)
C4_TrapThenMret ==
    /\ Len(hist) = 2
    /\ Len(hist[1].ev) = 1
    /\ hist[1].ev[1].epc = hist[1].pre.pc
    /\ hist[1].pre.privilege \in {"User", "Supervisor", "Machine"}
    /\ IsMretStep(hist[2])
C4_TrapMretRoundTrip ==
    C4_TrapThenMret =>
        /\ pc = hist[1].pre.pc
        /\ privilege = hist[1].pre.privilege
        /\ MieOf(View(M)) = MieOf(hist[1].pre)
        /\ MpieOf(View(M)) = 1
        /\ MppOf(View(M)) = 0

\* The round trip from Supervisor mode with interrupts enabled
C4_Witness ==
    /\ C4_TrapThenMret
    /\ hist[1].op \in HostTrapOps
    /\ hist[1].pre.privilege = "Supervisor"
    /\ MieOf(hist[1].pre) = 1
    /\ hist[2].pre.pc = 32
    /\ pc = 8

(***************************************************************************)
(* C5: a trap entry changes only mepc, mcause, mtval, the MIE, MPIE and    *)
(* MPP fields of mstatus, the privilege mode and the PC; every other       *)
(* mstatus bit, every other CSR, every integer and FP register, the CPU    *)
(* state and memory are as before the trap.                                *)
(***************************************************************************)
C5_TrapFields == \h1888
C5_TrapCsrs == {CSR_MEPC, CSR_MCAUSE, CSR_MTVAL, CSR_MSTATUS}
C5_TrapEntryFrame ==
    \A e \in TrapEvents :
        /\ BitAnd(MstatusOf(e.post), BitNot(C5_TrapFields)) = BitAnd(MstatusOf(e.at), BitNot(C5_TrapFields))
        /\ \A a \in ((DOMAIN e.at.csr) \cup (DOMAIN e.post.csr)) \ C5_TrapCsrs :
              CsrBank_read(e.post.csr, a) = CsrBank_read(e.at.csr, a)
        /\ e.post.x = e.at.x
        /\ e.post.f = e.at.f
        /\ e.post.state = e.at.state
        /\ e.post.mem = e.at.mem

\* A trap entry from a state whose mstatus has every bit set
C5_Witness ==
    \E e \in TrapEvents :
        /\ MstatusOf(e.at) = -1
        /\ MstatusOf(e.post) = -1 - 8
        /\ CsrBank_read(e.at.csr, CSR_MTVEC) = 35
        /\ e.at.x[1] = 33
        /\ e.post.pc /= e.at.pc

(***************************************************************************)
(* C6: after any sequence of instruction steps and register writes,        *)
(* including instructions whose destination is x0 (ALU operations, loads,  *)
(* JAL/JALR, CSR instructions, M and F instructions writing an integer     *)
(* register), integer register 0 holds and reads as 0.                     *)
(***************************************************************************)
C6_X0AlwaysZero ==
    /\ x[0] = 0
    /\ read_reg(M, 0) = 0
    /\ \A i \in DOMAIN hist : hist[i].pre.x[0] = 0

WritesX0(r) ==
    /\ r.op = "step"
    /\ r.claimed
    /\ r.ev = << >>
    /\ "rd" \in DOMAIN r.decoded.instr
    /\ r.decoded.instr.rd = 0
\* An instruction of one of the named kinds with rd = x0 retired, then the host wrote x0
C6_Witness ==
    /\ Len(hist) = 2
    /\ WritesX0(hist[1])
    /\ hist[1].decoded.instr.op \in {"Addi", "Lw", "Jalr", "Csrrw", "Mul", "FmvXW"}
    /\ hist[2].op = "write_reg"
    /\ hist[2].arg[1] = 0
    /\ hist[2].arg[2] /= 0

(***************************************************************************)
(* C7: in every state reachable by stepping in which the CPU state is      *)
(* Running, PC is a multiple of 4, including after JAL, JALR, taken        *)
(* branches, MRET/SRET and trap entry.                                     *)
(***************************************************************************)
C7_PcAlignedWhileRunning == state = Running => pc % 4 = 0

(***************************************************************************)
(* C8: across any sequence of steps (trap entries, MRET, SRET and CSR      *)
(* writes that put any 2-bit value into mstatus.MPP) the privilege mode is *)
(* never Reserved; an MPP of 2 is decoded as Machine.                      *)
(***************************************************************************)
C8_NeverReserved ==
    /\ privilege \in {"User", "Supervisor", "Machine"}
    /\ \A i \in DOMAIN hist :
          /\ hist[i].pre.privilege \in {"User", "Supervisor", "Machine"}
          /\ (IsMretStep(hist[i]) /\ MppOf(hist[i].pre) = 2) => PostOf(i).privilege = "Machine"

\* A CSR instruction put 2 into MPP and the MRET after it was executed
C8_Witness ==
    /\ Len(hist) = 2
    /\ hist[1].op = "step"
    /\ hist[1].decoded.instr.op = "Csrrw"
    /\ MppOf(hist[1].pre) /= 2
    /\ IsMretStep(hist[2])
    /\ MppOf(hist[2].pre) = 2
    /\ privilege = "Machine"

(***************************************************************************)
(* C9: once the CPU state is not Running (IllegalInstruction,              *)
(* WaitForInterrupt or Halted), every later step returns that same state   *)
(* and changes neither PC, registers, CSRs, privilege mode nor memory;     *)
(* after WFI executes, the state is WaitForInterrupt and stays so under    *)
(* further steps.                                                          *)
(***************************************************************************)
C9_StoppedCoreStaysPut ==
    \A i \in DOMAIN hist :
        hist[i].op = "step" =>
            /\ hist[i].pre.state /= Running =>
                  /\ hist[i].ret = hist[i].pre.state
                  /\ PostOf(i) = hist[i].pre
                  /\ hist[i].ev = << >>
            /\ (hist[i].pre.state = Running /\ hist[i].fetched /\ hist[i].decoded.instr.op = "Wfi") =>
                  /\ hist[i].ret = WaitForInterrupt
                  /\ PostOf(i).state = WaitForInterrupt

\* WFI was executed first and two more steps were made on the waiting core
C9_Witness ==
    /\ steps = 3
    /\ Len(hist) = 2
    /\ hist[1].op = "step"
    /\ hist[2].op = "step"
    /\ hist[1].pre.state = WaitForInterrupt
    /\ hist[2].pre.state = WaitForInterrupt
    /\ state = WaitForInterrupt

(***************************************************************************)
(* C10: when the fetched word decodes to Illegal or Custom, or no executor *)
(* claims it, the step sets the CPU state to IllegalInstruction(raw) with  *)
(* raw the fetched word and takes no trap: mepc, mcause, mtval, mstatus,   *)
(* the privilege mode, all registers and memory are unchanged and PC is    *)
(* not redirected to mtvec (it is the address after the fetched word).     *)
(***************************************************************************)
C10_Unclaimed(r) ==
    /\ r.op = "step"
    /\ r.fetched
    /\ (r.decoded.instr.op \in {"Illegal", "Custom"} \/ ~r.claimed)
C10_FetchedWord(r) ==
    LET b == [k \in 0 .. 3 |-> r.pre.mem.data[r.pre.pc - r.pre.mem.base_addr + k]]
    IN  W(b[3] * 256 + b[2], b[1] * 256 + b[0])
C10_UnclaimedSetsStateWithoutTrap ==
    \A i \in DOMAIN hist :
        C10_Unclaimed(hist[i]) =>
            /\ ~hist[i].claimed
            /\ hist[i].ev = << >>
            /\ PostOf(i).state = IllegalInstruction(C10_FetchedWord(hist[i]))
            /\ hist[i].ret = PostOf(i).state
            /\ PostOf(i).csr = hist[i].pre.csr
            /\ PostOf(i).privilege = hist[i].pre.privilege
            /\ PostOf(i).x = hist[i].pre.x
            /\ PostOf(i).f = hist[i].pre.f
            /\ PostOf(i).mem = hist[i].pre.mem
            /\ PostOf(i).pc = wrapping_add(hist[i].pre.pc, 4)

\* A word of a custom decoder was fetched from User mode with mtvec set
C10_Witness ==
    \E i \in DOMAIN hist :
        /\ C10_Unclaimed(hist[i])
        /\ hist[i].decoded.instr.op = "Custom"
        /\ hist[i].pre.privilege = "User"
        /\ CsrBank_read(hist[i].pre.csr, CSR_MTVEC) = 32
        /\ PostOf(i).pc = 4

(***************************************************************************)
(* C11: a step that executes ECALL takes exactly one trap whose cause is   *)
(* EcallFromU, EcallFromS or EcallFromM according to the privilege mode    *)
(* the step started in, with trap value 0; a step that executes EBREAK     *)
(* takes exactly one Breakpoint trap whose trap value is the address of    *)
(* the EBREAK itself.  In both cases mepc is the address of the trapping   *)
(* instruction (not the PC already advanced by 4), PC is the trap address  *)
(* computed from mtvec, and the CPU state stays Running.                   *)
(***************************************************************************)
C11_Executes(r, o) == r.op = "step" /\ r.fetched /\ r.decoded.instr.op = o
C11_EcallCause(mode) ==
    IF mode = "User" THEN "EcallFromU"
    ELSE IF mode = "Supervisor" THEN "EcallFromS" ELSE "EcallFromM"
C11_Entered(i, cause, tval) ==
    /\ Len(hist[i].ev) = 1
    /\ hist[i].ev[1].cause = cause
    /\ hist[i].ev[1].tval = tval
    /\ hist[i].ev[1].epc = hist[i].pre.pc
    /\ CsrBank_read(PostOf(i).csr, CSR_MEPC) = hist[i].pre.pc
    /\ CsrBank_read(PostOf(i).csr, CSR_MTVAL) = tval
    /\ CsrBank_read(PostOf(i).csr, CSR_MCAUSE) = code(cause)
    /\ PostOf(i).pc = C2_TrapAddress(hist[i].ev[1])
    /\ PostOf(i).state = Running
    /\ hist[i].ret = Running
C11_EcallEbreakTrap ==
    \A i \in DOMAIN hist :
        /\ C11_Executes(hist[i], "Ecall") =>
              C11_Entered(i, C11_EcallCause(hist[i].pre.privilege), 0)
        /\ C11_Executes(hist[i], "Ebreak") =>
              C11_Entered(i, "Breakpoint", hist[i].pre.pc)

\* An ECALL at address 16 trapped from Supervisor mode to the handler at 32
C11_EcallReached ==
    \E i \in DOMAIN hist :
        /\ C11_Executes(hist[i], "Ecall")
        /\ hist[i].pre.pc = 16
        /\ hist[i].pre.privilege = "Supervisor"
        /\ hist[i].ev[1].cause = "EcallFromS"
        /\ PostOf(i).pc = 32

\* An EBREAK at address 8 trapped with trap value 8 and mepc 8 to the handler at 32
C11_Witness ==
    \E i \in DOMAIN hist :
        /\ C11_Executes(hist[i], "Ebreak")
        /\ hist[i].pre.pc = 8
        /\ CsrBank_read(PostOf(i).csr, CSR_MTVAL) = 8
        /\ CsrBank_read(PostOf(i).csr, CSR_MEPC) = 8
        /\ PostOf(i).pc = 32

(***************************************************************************)
(* C12: a load or store whose memory access fails takes exactly one trap:  *)
(* LoadAccessFault / StoreAccessFault when a byte of the access lies       *)
(* outside the memory region, Load/StoreAddressMisaligned when the access  *)
(* is misaligned and is not split into bytes (the FP word accesses); the   *)
(* integer half-word and word accesses that are misaligned are split into  *)
(* bytes and fault at the first byte outside the region.  mtval is the     *)
(* faulting address, mepc the address of the faulting instruction, and a   *)
(* faulting load leaves every integer and FP register as it was.           *)
(***************************************************************************)
C12_Loads == {"Lb", "Lbu", "Lh", "Lhu", "Lw", "Flw"}
C12_Stores == {"Sb", "Sh", "Sw", "Fsw"}
C12_IsAccess(r) ==
    r.op = "step" /\ r.fetched /\ r.claimed /\ r.decoded.instr.op \in C12_Loads \cup C12_Stores
C12_Size(o) == IF o \in {"Lb", "Lbu", "Sb"} THEN 1 ELSE IF o \in {"Lh", "Lhu", "Sh"} THEN 2 ELSE 4
C12_Addr(r) == wrapping_add(r.pre.x[r.decoded.instr.rs1], r.decoded.instr.offset)
C12_Mapped(r, a) == (a - r.pre.mem.base_addr) \in DOMAIN r.pre.mem.data
\* The fault the access of r must raise: none, or its kind and address
C12_Fault(r) ==
    LET o == r.decoded.instr.op
        a == C12_Addr(r)
        n == C12_Size(o)
        bad == { k \in 0 .. n - 1 : ~C12_Mapped(r, wrapping_add(a, k)) }
    IN  IF o \in {"Flw", "Fsw"} /\ a % 4 /= 0
        THEN [failed |-> TRUE, kind |-> "AddressMisaligned", addr |-> a]
        ELSE IF bad = {} THEN [failed |-> FALSE, kind |-> "", addr |-> 0]
        ELSE IF a % n = 0 THEN [failed |-> TRUE, kind |-> "AccessFault", addr |-> a]
        ELSE [failed |-> TRUE, kind |-> "AccessFault",
              addr |-> wrapping_add(a, CHOOSE k \in bad : \A j \in bad : k <= j)]
C12_Cause(r) ==
    (IF r.decoded.instr.op \in C12_Loads THEN "Load" ELSE "Store") \o C12_Fault(r).kind
C12_FailedAccessTraps ==
    \A i \in DOMAIN hist :
        (C12_IsAccess(hist[i]) /\ C12_Fault(hist[i]).failed) =>
            /\ Len(hist[i].ev) = 1
            /\ hist[i].ev[1].cause = C12_Cause(hist[i])
            /\ hist[i].ev[1].tval = C12_Fault(hist[i]).addr
            /\ hist[i].ev[1].epc = hist[i].pre.pc
            /\ CsrBank_read(PostOf(i).csr, CSR_MCAUSE) = code(C12_Cause(hist[i]))
            /\ CsrBank_read(PostOf(i).csr, CSR_MTVAL) = C12_Fault(hist[i]).addr
            /\ CsrBank_read(PostOf(i).csr, CSR_MEPC) = hist[i].pre.pc
            /\ hist[i].decoded.instr.op \in C12_Loads =>
                  /\ PostOf(i).x = hist[i].pre.x
                  /\ PostOf(i).f = hist[i].pre.f

\* The four causes were raised: a word load at 62 split into bytes faulted at
\* byte 64, an aligned load far outside the region faulted at its address,
\* and the FP word accesses at 49 were rejected as misaligned.
C12_Raised(o, cause, tval) ==
    \E i \in DOMAIN hist :
        /\ C12_IsAccess(hist[i])
        /\ hist[i].decoded.instr.op = o
        /\ Len(hist[i].ev) = 1
        /\ hist[i].ev[1].cause = cause
        /\ hist[i].ev[1].tval = tval
C12_SplitLoadFault == C12_Raised("Lw", "LoadAccessFault", 64)
C12_SplitStoreFault == C12_Raised("Sw", "StoreAccessFault", 64)
C12_MisalignedLoad == C12_Raised("Flw", "LoadAddressMisaligned", 49)
C12_MisalignedStore == C12_Raised("Fsw", "StoreAddressMisaligned", 49)
\* A misaligned word load in range was salvaged by the byte-split path
C12_Salvaged ==
    \E i \in DOMAIN hist :
        /\ C12_IsAccess(hist[i])
        /\ hist[i].decoded.instr.op = "Lw"
        /\ C12_Addr(hist[i]) = 49
        /\ hist[i].ev = << >>
        /\ PostOf(i).x[2] /= 0
\* A word load from 0x80001088 faulted with that address in mtval and left x2 alone
C12_Witness ==
    \E i \in DOMAIN hist :
        /\ C12_IsAccess(hist[i])
        /\ hist[i].decoded.instr.op = "Lw"
        /\ hist[i].pre.x[1] = W(\h8000, \h1088)
        /\ hist[i].ev[1].cause = "LoadAccessFault"
        /\ CsrBank_read(PostOf(i).csr, CSR_MTVAL) = W(\h8000, \h1088)
        /\ PostOf(i).x[2] = hist[i].pre.x[2]

(***************************************************************************)
(* C13: when the 4-byte fetch at PC fails (PC is not word-aligned, or one  *)
(* of the four bytes lies outside the memory region), the step takes an    *)
(* InstructionAccessFault trap and executes no instruction: it makes that  *)
(* one trap entry, PC becomes the trap address, and the integer and FP     *)
(* registers and memory are as before the step.                            *)
(***************************************************************************)
C13_FetchFails(v) ==
    \/ v.pc % 4 /= 0
    \/ \E k \in 0 .. 3 : (v.pc + k - v.mem.base_addr) \notin DOMAIN v.mem.data
C13_MisalignedFetch ==
    \E i \in DOMAIN hist :
        /\ hist[i].op = "step"
        /\ hist[i].pre.state = Running
        /\ hist[i].pre.pc = 2
        /\ Len(hist[i].ev) = 1
        /\ hist[i].ev[1].cause = "InstructionAccessFault"
C14_Executes(r, ops) ==
    r.op = "step" /\ r.fetched /\ r.claimed /\ r.decoded.instr.op \in ops
C14_OldCsr(r) == CsrBank_read(r.pre.csr, r.decoded.instr.csr)
C14_NewValue(r) ==
    IF r.decoded.instr.op = "Csrrw" THEN r.pre.x[r.decoded.instr.rs1] ELSE r.decoded.instr.zimm
C14_OtherCsrsKept(i) ==
    \A a \in (DOMAIN PostOf(i).csr \cup DOMAIN hist[i].pre.csr) \ {hist[i].decoded.instr.csr} :
        CsrBank_read(PostOf(i).csr, a) = CsrBank_read(hist[i].pre.csr, a)
C14_CsrWriteSwaps ==
    \A i \in DOMAIN hist :
        C14_Executes(hist[i], {"Csrrw", "Csrrwi"}) =>
            /\ CsrBank_read(PostOf(i).csr, hist[i].decoded.instr.csr) = C14_NewValue(hist[i])
            /\ PostOf(i).x = [hist[i].pre.x EXCEPT ![hist[i].decoded.instr.rd] =
                                 IF hist[i].decoded.instr.rd = 0 THEN 0 ELSE C14_OldCsr(hist[i])]
            /\ C14_OtherCsrsKept(i)
            /\ hist[i].ev = << >>

\* CSRRW x0 replaced a non-zero mstatus and left the registers alone
C14_RdZero ==
    \E i \in DOMAIN hist :
        /\ C14_Executes(hist[i], {"Csrrw"})
        /\ hist[i].decoded.instr.rd = 0
        /\ C14_OldCsr(hist[i]) /= 0
        /\ C14_OldCsr(hist[i]) /= hist[i].pre.x[1]
        /\ CsrBank_read(PostOf(i).csr, hist[i].decoded.instr.csr) = hist[i].pre.x[1]
\* CSRRWI x2, mepc, 2 moved a non-zero mepc to x2 and wrote 2
C14_Immediate ==
    \E i \in DOMAIN hist :
        /\ C14_Executes(hist[i], {"Csrrwi"})
        /\ hist[i].decoded.instr.rd = 2
        /\ C14_OldCsr(hist[i]) = 16
        /\ PostOf(i).x[2] = 16
        /\ CsrBank_read(PostOf(i).csr, CSR_MEPC) = 2
\* CSRRW x1, mepc, x1 exchanged x1 = 33 and mepc = 8
C14_Witness ==
    \E i \in DOMAIN hist :
        /\ C14_Executes(hist[i], {"Csrrw"})
        /\ hist[i].decoded.instr.rd = 1
        /\ hist[i].decoded.instr.rs1 = 1
        /\ hist[i].pre.x[1] = 33
        /\ C14_OldCsr(hist[i]) = 8
        /\ PostOf(i).x[1] = 8
        /\ CsrBank_read(PostOf(i).csr, CSR_MEPC) = 33

(***************************************************************************)
(* C15: CSRRS, CSRRC, CSRRSI and CSRRCI always write the value the CSR     *)
(* held before to rd.  The CSR is written exactly when the rs1 index (or   *)
(* the immediate) is non-zero, and then becomes old | s (set) or old & ~s  *)
(* (clear), where s is the value rs1 held before the instruction (or the   *)
(* immediate), for every rd and rs1 including rd = rs1.                    *)
(***************************************************************************)
C15_Ops == {"Csrrs", "Csrrc", "Csrrsi", "Csrrci"}
C15_Source(r) ==
    IF r.decoded.instr.op \in {"Csrrs", "Csrrc"}
    THEN r.pre.x[r.decoded.instr.rs1] ELSE r.decoded.instr.zimm
C15_Selector(r) ==
    IF r.decoded.instr.op \in {"Csrrs", "Csrrc"} THEN r.decoded.instr.rs1 ELSE r.decoded.instr.zimm
C15_Expected(r) ==
    IF C15_Selector(r) = 0 THEN C14_OldCsr(r)
    ELSE IF r.decoded.instr.op \in {"Csrrs", "Csrrsi"}
    THEN BitOr(C14_OldCsr(r), C15_Source(r))
    ELSE BitAnd(C14_OldCsr(r), BitNot(C15_Source(r)))
C15_SetClearUsesOldRs1 ==
    \A i \in DOMAIN hist :
        C14_Executes(hist[i], C15_Ops) =>
            /\ PostOf(i).x = [hist[i].pre.x EXCEPT ![hist[i].decoded.instr.rd] =
                                 IF hist[i].decoded.instr.rd = 0 THEN 0 ELSE C14_OldCsr(hist[i])]
            /\ CsrBank_read(PostOf(i).csr, hist[i].decoded.instr.csr) = C15_Expected(hist[i])

(***************************************************************************)
(* C16: a non-zero tohost value v is classified as Pass when v = 1, as     *)
(* Fail with test number v >> 1 when v is odd and v /= 1, and as Timeout   *)
(* for anything else: whenever run_isa_test returns on a poll that         *)
(* observed v, its result is that classification of v.                     *)
(***************************************************************************)
C16_Classification(v) ==
    IF v = 1 THEN Pass
    ELSE IF v % 2 = 1 THEN Fail(Shr(v, 1))
    ELSE Timeout
C16_TohostClassification ==
    (sim.ret.is_some /\ sim.ret.observed.is_some) =>
        sim.ret.result = C16_Classification(sim.ret.observed.v)

(***************************************************************************)
(* C17: whenever a poll (check_tohost) observes a non-zero tohost value v, *)
(* it returns v and leaves tohost reading 0 and fromhost (when known)      *)
(* reading v; the next poll, with no guest step in between, observes 0     *)
(* and returns nothing.                                                    *)
(***************************************************************************)
C17_PollAcknowledges ==
    \A k \in DOMAIN sim.polls :
        /\ (sim.polls[k].before.is_some /\ sim.polls[k].before.v /= 0) =>
              /\ sim.polls[k].ret = Some(sim.polls[k].before.v)
              /\ sim.polls[k].tohost = Some(0)
              /\ sim.fromhost_addr.is_some => sim.polls[k].fromhost = sim.polls[k].before
        /\ sim.polls[k].ret.is_some =>
              /\ sim.polls[k].before = sim.polls[k].ret
              /\ sim.polls[k].ret.v /= 0
        /\ (k > 1 /\ sim.polls[k].quiet /\ sim.polls[k - 1].ret.is_some) =>
              /\ sim.polls[k].before = Some(0)
              /\ sim.polls[k].ret = None

\* run_isa_test returned on a poll that observed 5 and wrote it to
\* fromhost; the host's next poll observed 0 and returned nothing
C17_Witness ==
    /\ Len(sim.polls) = 2
    /\ sim.polls[1].ret = Some(5)
    /\ sim.polls[1].tohost = Some(0)
    /\ sim.polls[1].fromhost = Some(5)
    /\ sim.polls[2].quiet
    /\ sim.polls[2].before = Some(0)
    /\ sim.polls[2].ret = None
    /\ sim.ret.is_some
    /\ sim.ret.result = Fail(2)

(***************************************************************************)
(* C18 (as stated): the tohost and fromhost mailbox words both read 0 at   *)
(* program start (after the environment is built and when run_isa_test     *)
(* begins) and after each acknowledgment.                                  *)
(***************************************************************************)
C18_Zero(word) == word.is_some => word.v = 0
C18_BothZero ==
    /\ C18_Zero(Mailbox(mem, sim.tohost_addr))
    /\ C18_Zero(Mailbox(mem, sim.fromhost_addr))
C18_Built == sim.calls = 0 /\ sim.ops = 0
C18_Begins == sim.phase \in {"loop", "run"} /\ sim.i = 0
C18_AsStated ==
    /\ C18_Built => C18_BothZero
    /\ C18_Begins => C18_BothZero
    /\ \A k \in DOMAIN sim.polls :
          sim.polls[k].ret.is_some =>
              /\ C18_Zero(sim.polls[k].tohost)
              /\ C18_Zero(sim.polls[k].fromhost)

(***************************************************************************)
(* C18 (amended): both mailbox words read 0 after the environment is       *)
(* built and, when a tohost address is known, when run_isa_test begins;    *)
(* after each acknowledgment tohost reads 0 and fromhost holds the         *)
(* acknowledged value.                                                     *)
(***************************************************************************)
C18_MailboxesCleared ==
    /\ C18_Built => C18_BothZero
    /\ (C18_Begins /\ sim.tohost_addr.is_some) => C18_BothZero
    /\ \A k \in DOMAIN sim.polls :
          sim.polls[k].ret.is_some =>
              /\ sim.polls[k].tohost = Some(0)
              /\ sim.fromhost_addr.is_some => sim.polls[k].fromhost = sim.polls[k].ret

\* A second run_isa_test began after the first had acknowledged 5: fromhost,
\* which held 5, reads 0 again together with tohost
C18_Witness ==
    /\ C18_Begins
    /\ sim.calls = 2
    /\ Len(sim.polls) = 1
    /\ sim.polls[1].ret = Some(5)
    /\ sim.polls[1].fromhost = Some(5)
    /\ Mailbox(mem, sim.tohost_addr) = Some(0)
    /\ Mailbox(mem, sim.fromhost_addr) = Some(0)
\* Without a tohost address run_isa_test began with the guest's 5 still in fromhost
C18_NotClearedWithoutTohost ==
    /\ C18_Begins
    /\ ~sim.tohost_addr.is_some
    /\ Mailbox(mem, sim.fromhost_addr) = Some(5)

(***************************************************************************)
(* C19: run_isa_test(max) returns after at most max steps (1,000,000 when  *)
(* max is 0): while a call is in progress it has taken fewer steps than    *)
(* the cap, and when it returns the reported step count is the number of   *)
(* steps it took and does not exceed the cap.  It returns Timeout when no  *)
(* poll observed a non-zero tohost, which includes every call made with    *)
(* no tohost address known, and it gives up for the cap only at the cap.   *)
(***************************************************************************)
C19_Cap == IF sim.ret.arg = 0 THEN 1000000 ELSE sim.ret.arg
C19_BoundedRun ==
    /\ sim.phase /= "idle" =>
          /\ sim.i < C19_Cap
          /\ sim.max = C19_Cap
    /\ sim.phase = "loop" => sim.instructions_executed - sim.start = sim.i
    /\ sim.ret.is_some =>
          /\ sim.ret.reported = sim.ret.iters
          /\ sim.ret.reported <= C19_Cap
          /\ ~sim.ret.observed.is_some => sim.ret.result = Timeout
          /\ ~sim.tohost_addr.is_some => sim.ret.result = Timeout
          /\ sim.ret.by = "cap" => sim.ret.reported = C19_Cap

\* A call with max = 3 on a guest that never stores a non-zero value gave
\* up after exactly 3 steps with Timeout, with a tohost address known
C19_Witness ==
    /\ sim.ret.is_some
    /\ sim.ret.arg = 3
    /\ sim.ret.by = "cap"
    /\ sim.ret.reported = 3
    /\ sim.ret.result = Timeout
    /\ sim.tohost_addr.is_some
\* A call with max = 0 is in progress past its third step under the default cap
C19_DefaultCap ==
    /\ sim.phase = "loop"
    /\ sim.ret.arg = 0
    /\ sim.max = 1000000
    /\ sim.i = 3
\* A call without a tohost address ran to its cap of 2 and returned Timeout
C19_NoTohost ==
    /\ sim.ret.is_some
    /\ ~sim.tohost_addr.is_some
    /\ sim.ret.arg = 2
    /\ sim.ret.reported = 2
    /\ sim.ret.result = Timeout

(***************************************************************************)
(* C20: run_isa_test polls tohost after every step, so that no non-zero    *)
(* value is left in tohost while the polling loop goes on, and returns the *)
(* classification of the first non-zero value on the very step whose       *)
(* store made tohost non-zero, reporting that step's count; when a step    *)
(* leaves the CPU state not Running it polls once more and then stops,     *)
(* with Timeout when tohost still reads 0.                                 *)
(***************************************************************************)
C20_Stored == sim.it.after_step.is_some /\ sim.it.after_step.v /= 0
C20_PollsEveryStep ==
    /\ sim.phase = "loop" => Mailbox(mem, sim.tohost_addr) = Some(0)
    /\ (sim.phase = "loop" /\ sim.it.is_some) =>
          /\ sim.it.npolls = 1
          /\ sim.it.st = Running
          /\ ~C20_Stored
    /\ (sim.it.is_some /\ C20_Stored) =>
          /\ sim.it.npolls = 1
          /\ sim.phase = "idle"
          /\ sim.ret.is_some
          /\ sim.ret.observed = sim.it.after_step
          /\ sim.ret.result = C16_Classification(sim.it.after_step.v)
          /\ sim.ret.reported = sim.i
    /\ (sim.it.is_some /\ ~C20_Stored /\ sim.it.st /= Running) =>
          /\ sim.it.npolls = 2
          /\ sim.phase = "idle"
          /\ sim.ret.is_some
          /\ sim.ret.result = Timeout
          /\ sim.ret.reported = sim.i

(***************************************************************************)
(* C21: CpuCore::run(mem, max) performs at most max steps, stops after the *)
(* first step whose resulting state is not Running, and returns (count,    *)
(* state) where count is the number of steps it performed (the counter     *)
(* `executed`) and state is the CPU state after the last step (the state   *)
(* the call found when max is 0); SimEnv::run returns the same pair and    *)
(* adds count to instructions_executed.                                    *)
(***************************************************************************)
C21_StepsTaken == Len(sim.after)
C21_AllRunningBefore(n) == \A k \in 1 .. n : sim.after[k] = Running
C21_LastState == IF C21_StepsTaken = 0 THEN sim.entered ELSE sim.after[C21_StepsTaken]
C21_CapReached ==
    /\ sim.ret.is_some
    /\ sim.caller = "CpuCore::run"
    /\ sim.max = 2
    /\ sim.ret.count = 2
    /\ sim.ret.state = Running

\* CpuCore::run on a core in WaitForInterrupt returned (1, WaitForInterrupt)
\* after one step that executed nothing
C21_StoppedCore ==
    /\ sim.ret.is_some
    /\ sim.entered = WaitForInterrupt
    /\ sim.ret.count = 1
    /\ ~sim.ops[1].ran

(***************************************************************************)
(* C22: running stops at environment calls and breakpoints: CpuCore::run   *)
(* (and SimEnv::run, which calls it) returns at the first ECALL or EBREAK  *)
(* it executes, and SimEnv::run_until_halt does so when the configuration  *)
(* flag stop_on_trap is true.                                              *)
(***************************************************************************)
C22_Stopping ==
    sim.caller /= "SimEnv::run_until_halt" \/ sim.config.stop_on_trap
C22_StopsAtEcallEbreak ==
    \A k \in DOMAIN sim.ops :
        (sim.ops[k].op \in {"Ecall", "Ebreak"} /\ C22_Stopping) =>
            (k = Len(sim.ops) /\ sim.ret.is_some)

\* What the code does: a call goes on after an ECALL or EBREAK, whose trap
\* leaves the state Running, with stop_on_trap true as with false
C22_RunsOn ==
    /\ sim.caller = "SimEnv::run_until_halt"
    /\ sim.config.stop_on_trap
    /\ sim.ret.is_some
    /\ sim.ret.count = 2
    /\ sim.ops[1].op = "Ecall"
    /\ sim.after[1] = Running

(***************************************************************************)
(* C23: DecoderRegistry::register of a decoder with a concrete opcode list *)
(* succeeds if and only if, for every opcode in its list, every decoder    *)
(* already registered on that opcode permits overlap and so does the new   *)
(* decoder (nothing is asked where no decoder is registered); otherwise it *)
(* returns an error naming the first conflicting opcode in list order.     *)
(***************************************************************************)
C23_IsRegister == hist /= << >> /\ hist[1].op = "register"
C23_Concrete == C23_IsRegister /\ hist[1].decoder.opcodes.is_some
\* The decoders of a registry registered on an opcode: those that list it
\* and the wildcards, an opcode beyond the 128 buckets having none
C23_RegisteredOn(reg, op) ==
    { i \in 1 .. Len(reg.decoders) :
         /\ op < 128
         /\ \/ ~reg.decoders[i].opcodes.is_some
            \/ op \in SeqElems(reg.decoders[i].opcodes.v) }
C23_Free(reg, decoder, op) ==
    \A i \in C23_RegisteredOn(reg, op) :
        reg.decoders[i].allow_overlap /\ decoder.allow_overlap
C23_List == hist[1].decoder.opcodes.v
C23_SecondOpcodeNamed ==
    /\ C23_Concrete
    /\ hist[1].decoder = SharingDecoder
    /\ ~hist[1].ok
    /\ hist[1].err.op = OP_FP
    /\ C23_RegisteredOn(hist[1].pre, OP_CUSTOM_0) = {}

\* A decoder that allows no overlap registered on opcodes no decoder held
C23_FreshOpcodes ==
    /\ C23_Concrete
    /\ hist[1].decoder = FarDecoder
    /\ hist[1].ok
    /\ Len(hist[1].pre.decoders) > 0

(***************************************************************************)
(* C24: a wildcard decoder (no opcode list) registers successfully exactly *)
(* when no opcode bucket is non-empty, or when all decoders present allow  *)
(* overlap and the wildcard itself allows overlap; otherwise registration  *)
(* fails.                                                                  *)
(***************************************************************************)
C24_Wildcard == C23_IsRegister /\ ~hist[1].decoder.opcodes.is_some
C24_NoBucketHeld == \A op \in 0 .. 127 : hist[1].pre.opcode_map[op] = << >>
C24_AllAllow ==
    /\ \A i \in 1 .. Len(hist[1].pre.decoders) : hist[1].pre.decoders[i].allow_overlap
    /\ hist[1].decoder.allow_overlap
C24_RegisterWildcard ==
    C24_Wildcard => (hist[1].ok <=> (C24_NoBucketHeld \/ C24_AllAllow))

\* What the code does: a wildcard that allows no overlap is refused by a
\* registry that holds no decoder at all
C24_RefusedByEmptyRegistry ==
    /\ C24_Wildcard
    /\ hist[1].pre = DecoderRegistry_new
    /\ hist[1].decoder = DefaultDecoder
    /\ ~hist[1].ok
    /\ hist[1].err.wildcard

(***************************************************************************)
(* C25: a register call that returns an error leaves the registry          *)
(* unchanged: decoder_count, every opcode bucket and the result of decode  *)
(* for every word are the same as before the call, for concrete-opcode and *)
(* for wildcard decoders alike.                                            *)
(***************************************************************************)
C25_Failed == C23_IsRegister /\ ~hist[1].ok
C25_FailedRegisterChangesNothing ==
    C25_Failed =>
        /\ Len(registry.decoders) = Len(hist[1].pre.decoders)
        /\ registry.decoders = hist[1].pre.decoders
        /\ \A op \in 0 .. 127 : registry.opcode_map[op] = hist[1].pre.opcode_map[op]
        /\ \A raw \in DecodeWords :
              Registry_decode(registry, raw) = Registry_decode(hist[1].pre, raw)

\* The second registration of the custom decoder of isa/tests.rs failed and
\* the registry still holds RV32I and the custom decoder, which decodes a
\* custom-0 word
C25_Witness ==
    /\ C25_Failed
    /\ hist[1].decoder = CustomDecoder
    /\ Len(registry.decoders) = 2
    /\ registry.decoders[2] = CustomDecoder
    /\ Registry_decode(registry, W(\h1234, \h500B)).instr.op = "Custom"

\* A wildcard was refused by a registry that holds RV32F
C25_WildcardRefused ==
    /\ C25_Failed
    /\ hist[1].decoder = WildDecoder
    /\ \E i \in 1 .. Len(registry.decoders) : registry.decoders[i] = RV32F_DECODER

(***************************************************************************)
(* C26: decode(w) returns the result of the first decoder, in registration *)
(* order among those registered on opcode w[6:0], that matches w, and      *)
(* returns Illegal{raw: w} when none matches (words of an extension that   *)
(* is not enabled included); a word that matches exactly one table entry e *)
(* of the enabled extensions decodes to e.build(w).                        *)
(***************************************************************************)
C26_IsDecode == hist /= << >> /\ hist[1].op = "decode"
C26_Opcode == BitAnd(hist[1].raw, \h7F)
\* The decoders registered on the word's opcode that match the word
C26_Matching ==
    { i \in C23_RegisteredOn(registry, C26_Opcode) :
         Decoder_decode(registry.decoders[i], hist[1].raw).is_some }
C26_First == CHOOSE i \in C26_Matching : \A j \in C26_Matching : i <= j
C26_Illegal == [raw |-> hist[1].raw, instr |-> [op |-> "Illegal", raw |-> hist[1].raw]]
\* The table entries of the registered decoders that match the word
C26_Entries ==
    { p \in (1 .. Len(registry.decoders)) \X (1 .. Len(RV32I_INSTRS)) :
         /\ p[2] <= Len(registry.decoders[p[1]].instrs)
         /\ matches(registry.decoders[p[1]].instrs[p[2]], hist[1].raw) }
C26_InTree ==
    \A i \in 1 .. Len(registry.decoders) :
        registry.decoders[i] \in
            {RV32I_DECODER, RV32M_DECODER, RV32F_DECODER, ZICSR_DECODER, PRIV_DECODER}
C26_DecodeFirstMatch ==
    C26_IsDecode =>
        /\ registry = hist[1].pre
        /\ hist[1].ret = IF C26_Matching = {} THEN C26_Illegal
                         ELSE Decoder_decode(registry.decoders[C26_First], hist[1].raw).v
        /\ (C26_InTree /\ Cardinality(C26_Entries) = 1) =>
              \A p \in C26_Entries :
                  hist[1].ret = decode_instr(registry.decoders[p[1]].instrs[p[2]], hist[1].raw)

\* An OP-IMM word decoded as ADDI by RV32I, registered first, although the
\* wildcard registered after it matches the word too
C26_Witness ==
    /\ C26_IsDecode
    /\ hist[1].raw = W(\h0050, \h8013)
    /\ Cardinality(C26_Matching) = 2
    /\ registry.decoders[C26_First] = RV32I_DECODER
    /\ hist[1].ret.instr = [op |-> "Addi", rd |-> 0, rs1 |-> 1, imm |-> 5]

\* A MUL word decoded as Illegal by a registry built without the M extension
C26_NotEnabled ==
    /\ C26_IsDecode
    /\ hist[1].raw = W(\h0210, \h8033)
    /\ C26_InTree
    /\ Len(registry.decoders) = 4
    /\ hist[1].ret = C26_Illegal

\* A MUL word, which matches the one entry MUL of the enabled tables,
\* decoded by that entry
C26_SingleEntry ==
    /\ C26_IsDecode
    /\ hist[1].raw = W(\h0210, \h8033)
    /\ C26_InTree
    /\ Cardinality(C26_Entries) = 1
    /\ hist[1].ret.instr = [op |-> "Mul", rd |-> 0, rs1 |-> 1, rs2 |-> 1]

\* A CSRRW word decoded as Illegal although a table of a registered decoder
\* holds CSRRW: that decoder is not registered on the SYSTEM opcode
C26_OutsideItsList ==
    /\ C26_IsDecode
    /\ hist[1].raw = W(\h3000, \h9073)
    /\ \E i \in 1 .. Len(registry.decoders) : registry.decoders[i] = SharingDecoder
    /\ Cardinality(C26_Entries) = 1
    /\ hist[1].ret = C26_Illegal

(***************************************************************************)
(* C27: for every subset of the in-tree extensions {M, F, Zicsr,           *)
(* privileged} enabled on top of base I, no 32-bit word matches two        *)
(* different table entries, detect_conflicts returns an empty list and     *)
(* IsaConfig::build succeeds.                                              *)
(***************************************************************************)
C27_IsBuild == hist /= << >> /\ hist[1].op = "build"
\* Two entries can match a common word only if their match values agree on
\* the bits both masks select
C27_CommonWord(s1, s2) ==
    BitAnd(s1.match_val, BitAnd(s1.mask, s2.mask)) = BitAnd(s2.match_val, BitAnd(s1.mask, s2.mask))
C27_Matched(sig, raw) == BitAnd(raw, sig.mask) = sig.match_val
C27_BuildWithoutConflict ==
    C27_IsBuild =>
        /\ \A s1 \in signatures(hist[1].exts) : \A s2 \in signatures(hist[1].exts) :
              s1.at /= s2.at => ~C27_CommonWord(s1, s2)
        /\ \A raw \in ProgramWords \cup DecodeWords :
              Cardinality({ sig \in signatures(hist[1].exts) : C27_Matched(sig, raw) }) <= 1
        /\ hist[1].conflicts = {}
        /\ Len(registry.decoders) = 1 + Cardinality(hist[1].exts)
        /\ \A i \in 1 .. Len(registry.decoders) :
              \A k \in 1 .. Len(registry.decoders[i].opcodes.v) :
                  i - 1 \in SeqElems(registry.opcode_map[registry.decoders[i].opcodes.v[k]])

\* The configuration with all four extensions built: five decoders, three
\* of them sharing the SYSTEM bucket
C27_Witness ==
    /\ C27_IsBuild
    /\ hist[1].exts = InTreeExtensions
    /\ hist[1].conflicts = {}
    /\ Len(registry.decoders) = 5
    /\ Len(registry.opcode_map[OP_SYSTEM]) = 3
    /\ Len(registry.opcode_map[OP_REG]) = 2

(***************************************************************************)
(* C28: for every address with the required alignment whose accessed bytes *)
(* all lie inside [base, base+size) and every value, store8/16/32 succeeds *)
(* and lays the value out little-endian (byte i of the value at addr+i),   *)
(* every byte outside the stored range is unchanged, and a load8/16/32 of  *)
(* the same size at the same address that follows returns the stored       *)
(* value.                                                                  *)
(***************************************************************************)
C28_Stores == { i \in 1 .. Len(hist) : hist[i].op = "store" }
C28_Rel(r) == wrapping_sub(r.addr, r.pre.base_addr)
C28_Size(r) == Cardinality(DOMAIN r.pre.data)
C28_Aligned(r) == r.addr % r.bytes = 0
\* The address itself is a byte of the region
C28_AddressInside(r) == C28_Rel(r) \in 0 .. C28_Size(r) - 1
\* Every byte of the access is a byte of the region
C28_RangeInside(r) == C28_Rel(r) >= 0 /\ C28_Rel(r) + r.bytes <= C28_Size(r)
C28_ByteOf(value, i) == (value \div Pow2(8 * i)) % 256
C28_Contract(i) ==
    /\ hist[i].ok
    /\ \A k \in 0 .. hist[i].bytes - 1 :
          hist[i].post.data[C28_Rel(hist[i]) + k] = C28_ByteOf(hist[i].value, k)
    /\ \A j \in DOMAIN hist[i].pre.data :
          j \notin C28_Rel(hist[i]) .. C28_Rel(hist[i]) + hist[i].bytes - 1
              => hist[i].post.data[j] = hist[i].pre.data[j]
    /\ hist[i].post.base_addr = hist[i].pre.base_addr
    /\ DOMAIN hist[i].post.data = DOMAIN hist[i].pre.data
    /\ (i < Len(hist) /\ hist[i + 1].op = "load" /\ hist[i + 1].bytes = hist[i].bytes
            /\ hist[i + 1].addr = hist[i].addr)
          => hist[i + 1].ok /\ hist[i + 1].value = hist[i].value
C28_StoreLoadRoundTrip ==
    \A i \in C28_Stores :
        (C28_Aligned(hist[i]) /\ C28_RangeInside(hist[i])) => C28_Contract(i)

\* The statement for every aligned address inside the region
C28_EveryAddressInside ==
    \A i \in C28_Stores :
        (C28_Aligned(hist[i]) /\ C28_AddressInside(hist[i])) => C28_Contract(i)

\* A word stored at an aligned address of a region that does not start at
\* zero, and loaded back
C28_Witness ==
    /\ Len(hist) = 2
    /\ hist[1].op = "store" /\ hist[1].bytes = 4 /\ hist[1].ok
    /\ hist[1].pre.base_addr /= 0
    /\ hist[1].value = W(\hDEAD, \hBEEF)
    /\ hist[2].op = "load" /\ hist[2].bytes = 4 /\ hist[2].addr = hist[1].addr
    /\ hist[2].value = W(\hDEAD, \hBEEF)

\* An aligned word address inside the region whose last bytes are past its end
C28_PastTheEnd ==
    \E i \in C28_Stores :
        /\ C28_Aligned(hist[i]) /\ C28_AddressInside(hist[i]) /\ ~C28_RangeInside(hist[i])
        /\ ~hist[i].ok /\ hist[i].err = "OutOfRange"

(***************************************************************************)
(* C29: LH/LHU/LW/SH/SW at an address that is not naturally aligned        *)
(* succeed whenever all their bytes are inside the memory region: the load *)
(* returns the little-endian assembly of the individual bytes (sign- or    *)
(* zero-extended per mnemonic), the store writes the value's bytes         *)
(* little-endian and no other byte, and a misaligned store followed by a   *)
(* load of the same size at the same address returns the stored value.     *)
(***************************************************************************)
C29_Loads == {"Lh", "Lhu", "Lw"}
C29_Stores == {"Sh", "Sw"}
C29_OpOf(r) == r.decoded.instr.op
C29_IsAccess(r) ==
    r.op = "step" /\ r.fetched /\ r.claimed /\ C29_OpOf(r) \in C29_Loads \cup C29_Stores
C29_Size(r) == IF C29_OpOf(r) \in {"Lw", "Sw"} THEN 4 ELSE 2
C29_Addr(r) == wrapping_add(RegFile_read(r.pre.x, r.decoded.instr.rs1), r.decoded.instr.offset)
C29_Index(r, k) == wrapping_sub(wrapping_add(C29_Addr(r), k), r.pre.mem.base_addr)
C29_Misaligned(r) == C29_Addr(r) % C29_Size(r) /= 0
C29_BytesInside(r) == \A k \in 0 .. C29_Size(r) - 1 : C29_Index(r, k) \in DOMAIN r.pre.mem.data
C29_Case(r) == C29_IsAccess(r) /\ C29_Misaligned(r) /\ C29_BytesInside(r)
\* The half-word whose low byte is the byte at addr+k of the memory and
\* whose high byte is the one after it
C29_Half(r, data, k) == data[C29_Index(r, k)] + 256 * data[C29_Index(r, k + 1)]
\* The value of the access's size whose byte k is the byte at addr+k
C29_Assembled(r, data) ==
    IF C29_Size(r) = 2 THEN C29_Half(r, data, 0)
    ELSE W(C29_Half(r, data, 2), C29_Half(r, data, 0))
\* The register value a loaded value of the access's size extends to
C29_Extended(r, u) ==
    IF C29_OpOf(r) = "Lh" THEN (IF u >= 32768 THEN u - 65536 ELSE u) ELSE u
\* The value of the access's size a store of the register value v writes
C29_Stored(r, v) == IF C29_Size(r) = 2 THEN v % 65536 ELSE v
C29_Range(r) == { C29_Index(r, k) : k \in 0 .. C29_Size(r) - 1 }
C29_LoadContract(i) ==
    /\ hist[i].ev = << >>
    /\ hist[i].decoded.instr.rd /= 0 =>
          PostOf(i).x[hist[i].decoded.instr.rd]
              = C29_Extended(hist[i], C29_Assembled(hist[i], hist[i].pre.mem.data))
    /\ PostOf(i).mem = hist[i].pre.mem
    /\ PostOf(i).pc = wrapping_add(hist[i].pre.pc, 4)
C29_StoreContract(i) ==
    /\ hist[i].ev = << >>
    /\ C29_Assembled(hist[i], PostOf(i).mem.data)
          = C29_Stored(hist[i], RegFile_read(hist[i].pre.x, hist[i].decoded.instr.rs2))
    /\ \A j \in DOMAIN hist[i].pre.mem.data :
          j \notin C29_Range(hist[i]) => PostOf(i).mem.data[j] = hist[i].pre.mem.data[j]
    /\ DOMAIN PostOf(i).mem.data = DOMAIN hist[i].pre.mem.data
    /\ PostOf(i).x = hist[i].pre.x
    /\ PostOf(i).pc = wrapping_add(hist[i].pre.pc, 4)
C29_StoreThenLoad(i) ==
    /\ i < Len(hist)
    /\ C29_Case(hist[i]) /\ C29_OpOf(hist[i]) \in C29_Stores
    /\ C29_Case(hist[i + 1]) /\ C29_OpOf(hist[i + 1]) \in C29_Loads
    /\ C29_Size(hist[i + 1]) = C29_Size(hist[i])
    /\ C29_Addr(hist[i + 1]) = C29_Addr(hist[i])
C29_MisalignedAccess ==
    \A i \in DOMAIN hist :
        /\ (C29_Case(hist[i]) /\ C29_OpOf(hist[i]) \in C29_Loads) => C29_LoadContract(i)
        /\ (C29_Case(hist[i]) /\ C29_OpOf(hist[i]) \in C29_Stores) => C29_StoreContract(i)
        /\ (C29_StoreThenLoad(i) /\ hist[i + 1].decoded.instr.rd /= 0) =>
              PostOf(i + 1).x[hist[i + 1].decoded.instr.rd]
                  = C29_Extended(hist[i + 1],
                        C29_Stored(hist[i], RegFile_read(hist[i].pre.x, hist[i].decoded.instr.rs2)))

\* SW of 0xDEADBEEF to an address one past a word boundary of a region at
\* 0x80000000, loaded back by LW
C29_Witness ==
    /\ Len(hist) = 2
    /\ C29_StoreThenLoad(1)
    /\ C29_OpOf(hist[1]) = "Sw" /\ C29_OpOf(hist[2]) = "Lw"
    /\ C29_Addr(hist[1]) = W(\h8000, \h0031)
    /\ x[3] = W(\hDEAD, \hBEEF)

\* SH of a half-word with its top bit set to an odd address, loaded back
\* sign-extended by LH
C29_HalfSignExtended ==
    /\ Len(hist) = 2
    /\ C29_StoreThenLoad(1)
    /\ C29_OpOf(hist[1]) = "Sh" /\ C29_OpOf(hist[2]) = "Lh"
    /\ hist[1].pre.x[2] = W(\hDEAD, \hBEEF)
    /\ x[3] = W(\hFFFF, \hBEEF)

\* A misaligned word load whose bytes straddle two words of the data
C29_LoadAssembles ==
    \E i \in DOMAIN hist :
        /\ C29_Case(hist[i]) /\ C29_OpOf(hist[i]) = "Lw"
        /\ C29_OpOf(hist[1]) \notin C29_Stores \/ ~C29_BytesInside(hist[1])
        /\ PostOf(i).x[3] /= 0

(***************************************************************************)
(* C30: FLW and FSW compute their address as rs1 + imm exactly like LW and *)
(* SW and follow the alignment policy of integer word access: at every     *)
(* address FLW/FSW succeeds exactly when LW/SW at that address succeeds    *)
(* and then transfers the same 32 bits, and traps with the same cause and  *)
(* tval when LW/SW traps.                                                  *)
(***************************************************************************)
C30_IsFpAccess(r) ==
    r.op = "step" /\ r.fetched /\ r.claimed /\ r.decoded.instr.op \in {"Flw", "Fsw"}
C30_Addr(r) == wrapping_add(RegFile_read(r.pre.x, r.decoded.instr.rs1), r.decoded.instr.offset)
\* The core as it was when the instruction executed, PC already advanced
C30_Machine(r) ==
    [isa |-> isa, x |-> r.pre.x, f |-> r.pre.f, csr |-> r.pre.csr,
     privilege |-> r.pre.privilege, pc |-> wrapping_add(r.pre.pc, 4), state |-> r.pre.state,
     mem |-> r.pre.mem, ev |-> << >>]
\* What LW / SW of the same register bits at the same address does there
C30_IntegerAccess(r) ==
    IF r.decoded.instr.op = "Flw"
    THEN load_word(C30_Machine(r), C30_Addr(r), r.pre.pc)
    ELSE store_word(C30_Machine(r), C30_Addr(r), r.pre.f.regs[r.decoded.instr.frs2], r.pre.pc)
C30_Agrees(i) ==
    LET w == C30_IntegerAccess(hist[i]) IN
        /\ (hist[i].ev = << >>) = w.is_some
        /\ w.is_some =>
              /\ PostOf(i).mem = w.m.mem
              /\ hist[i].decoded.instr.op = "Flw" =>
                    PostOf(i).f.regs[hist[i].decoded.instr.frd] = w.v
        /\ ~w.is_some =>
              /\ Len(hist[i].ev) = 1 /\ Len(w.m.ev) = 1
              /\ hist[i].ev[1].cause = w.m.ev[1].cause
              /\ hist[i].ev[1].tval = w.m.ev[1].tval
C30_SameAsIntegerWord ==
    \A i \in DOMAIN hist : C30_IsFpAccess(hist[i]) => C30_Agrees(i)

\* FLW at 49 took the misaligned-address trap where LW at 49 loads the word
C30_FlwTrapsWhereLwLoads ==
    \E i \in DOMAIN hist :
        /\ C30_IsFpAccess(hist[i]) /\ hist[i].decoded.instr.op = "Flw"
        /\ C30_Addr(hist[i]) = 49
        /\ C30_IntegerAccess(hist[i]).is_some
        /\ Len(hist[i].ev) = 1
        /\ hist[i].ev[1].cause = "LoadAddressMisaligned" /\ hist[i].ev[1].tval = 49

\* FSW at 49 took the misaligned-address trap where SW at 49 stores the word
C30_FswTrapsWhereSwStores ==
    \E i \in DOMAIN hist :
        /\ C30_IsFpAccess(hist[i]) /\ hist[i].decoded.instr.op = "Fsw"
        /\ C30_Addr(hist[i]) = 49
        /\ C30_IntegerAccess(hist[i]).is_some
        /\ Len(hist[i].ev) = 1
        /\ hist[i].ev[1].cause = "StoreAddressMisaligned" /\ hist[i].ev[1].tval = 49

\* At word-aligned addresses the two agree
C30_AgreeWhenAligned ==
    \A i \in DOMAIN hist :
        (C30_IsFpAccess(hist[i]) /\ C30_Addr(hist[i]) % 4 = 0) => C30_Agrees(i)

\* FLW at 48 loaded the word LW at 48 loads
C30_AlignedLoad ==
    \E i \in DOMAIN hist :
        /\ C30_IsFpAccess(hist[i]) /\ hist[i].decoded.instr.op = "Flw"
        /\ C30_Addr(hist[i]) = 48 /\ hist[i].ev = << >>
        /\ PostOf(i).f.regs[3] = C30_IntegerAccess(hist[i]).v
        /\ PostOf(i).f.regs[3] /= 0

(***************************************************************************)
(* C31: JAL at address a writes a + 4 to rd and sets PC to a + J-imm; JALR *)
(* writes its own address + 4 to rd and sets PC to (rs1 + I-imm) & ~1      *)
(* using the value rs1 held before the instruction even when rd = rs1;     *)
(* hence JAL x1 followed by JALR x0, 0(x1) at the target sets PC to the    *)
(* instruction after the JAL.                                              *)
(***************************************************************************)
C31_Executes(r, o) == r.op = "step" /\ r.fetched /\ r.claimed /\ r.decoded.instr.op = o
\* The immediates as the instruction word encodes them
C31_JImm(raw) ==
    (Shr(raw, 12) % 256) * 4096 + Bit(raw, 20) * 2048 + (Shr(raw, 21) % 1024) * 2
        - Bit(raw, 31) * 1048576
C31_IImm(raw) == raw \div 1048576
C31_Rd(raw) == Shr(raw, 7) % 32
C31_Rs1(raw) == Shr(raw, 15) % 32
C31_Link(i) ==
    /\ hist[i].ev = << >>
    /\ C31_Rd(hist[i].decoded.raw) /= 0 =>
          PostOf(i).x[C31_Rd(hist[i].decoded.raw)] = wrapping_add(hist[i].pre.pc, 4)
    /\ \A r \in Regs : r /= C31_Rd(hist[i].decoded.raw) => PostOf(i).x[r] = hist[i].pre.x[r]
C31_JalContract(i) ==
    /\ C31_Link(i)
    /\ PostOf(i).pc = wrapping_add(hist[i].pre.pc, C31_JImm(hist[i].decoded.raw))
C31_JalrContract(i) ==
    /\ C31_Link(i)
    /\ PostOf(i).pc
          = BitAnd(wrapping_add(RegFile_read(hist[i].pre.x, C31_Rs1(hist[i].decoded.raw)),
                                C31_IImm(hist[i].decoded.raw)), -2)
C31_CallThenReturn(i) ==
    /\ i < Len(hist)
    /\ C31_Executes(hist[i], "Jal") /\ C31_Rd(hist[i].decoded.raw) = 1
    /\ C31_Executes(hist[i + 1], "Jalr")
    /\ C31_Rd(hist[i + 1].decoded.raw) = 0 /\ C31_Rs1(hist[i + 1].decoded.raw) = 1
    /\ C31_IImm(hist[i + 1].decoded.raw) = 0
C31_JumpAndLink ==
    \A i \in DOMAIN hist :
        /\ C31_Executes(hist[i], "Jal") => C31_JalContract(i)
        /\ C31_Executes(hist[i], "Jalr") => C31_JalrContract(i)
        /\ C31_CallThenReturn(i) => PostOf(i + 1).pc = wrapping_add(hist[i].pre.pc, 4)

\* JAL x1, 8 at 0 (x1 = 4, PC = 8) followed by JALR x0, 0(x1) at 8: PC = 4
C31_Witness ==
    /\ Len(hist) = 2
    /\ C31_CallThenReturn(1)
    /\ hist[1].pre.pc = 0 /\ hist[2].pre.pc = 8 /\ hist[2].pre.x[1] = 4
    /\ pc = 4

\* JALR x1, 3(x1) with x1 = 20: x1 becomes the return address and the jump
\* goes to 22, computed from the old x1
C31_RdIsRs1 ==
    \E i \in DOMAIN hist :
        /\ C31_Executes(hist[i], "Jalr")
        /\ C31_Rd(hist[i].decoded.raw) = 1 /\ C31_Rs1(hist[i].decoded.raw) = 1
        /\ hist[i].pre.x[1] = 20 /\ C31_IImm(hist[i].decoded.raw) = 3
        /\ PostOf(i).pc = 22
        /\ PostOf(i).x[1] = wrapping_add(hist[i].pre.pc, 4)

\* JAL x1, -8 at 0x80000010 jumps back to 0x80000008
C31_BackwardJal ==
    \E i \in DOMAIN hist :
        /\ C31_Executes(hist[i], "Jal")
        /\ hist[i].pre.pc = W(\h8000, \h0010)
        /\ PostOf(i).pc = W(\h8000, \h0008)
        /\ PostOf(i).x[1] = W(\h8000, \h0014)

(***************************************************************************)
(* C32: DIV, DIVU, REM and REMU never trap and never leave the Running     *)
(* state: with rs2 = 0, DIV gives -1 (all ones), DIVU gives 2^32 - 1, REM  *)
(* and REMU give rs1; with rs1 = INT_MIN and rs2 = -1, DIV gives rs1 and   *)
(* REM gives 0; otherwise they give the truncated quotient and the         *)
(* remainder.                                                              *)
(***************************************************************************)
C32_Ops == {"Div", "Divu", "Rem", "Remu"}
C32_IsDivision(r) == r.op = "step" /\ r.fetched /\ r.claimed /\ r.decoded.instr.op \in C32_Ops
C32_A(r) == RegFile_read(r.pre.x, r.decoded.instr.rs1)
C32_B(r) == RegFile_read(r.pre.x, r.decoded.instr.rs2)
\* r is a remainder of a signed division by b /= 0 of a number of the sign
\* of a: smaller than b in magnitude, and zero or of the sign of a
C32_SignedRemainder(a, b, r) ==
    /\ IF b > 0 THEN 0 - b < r /\ r < b ELSE b < r /\ (b = MinInt32 \/ r < 0 - b)
    /\ r = 0 \/ (r < 0) = (a < 0)
\* q is the quotient of a by b truncated towards zero: q * b fits in 32 bits,
\* is zero or of the sign of a, and leaves a remainder
C32_TruncatedQuotient(a, b, q) ==
    /\ mulh(q, b) = (IF wrapping_mul(q, b) < 0 THEN -1 ELSE 0)
    /\ wrapping_mul(q, b) = 0 \/ (wrapping_mul(q, b) < 0) = (a < 0)
    /\ C32_SignedRemainder(a, b, a - wrapping_mul(q, b))
\* r is the remainder that goes with the truncated quotient: a - r is a
\* multiple of b
C32_TruncatedRemainder(a, b, r) ==
    /\ C32_SignedRemainder(a, b, r)
    /\ IF b > 0 THEN (a - r) % b = 0
       ELSE IF b = MinInt32 THEN a - r \in {0, MinInt32}
       ELSE (a - r) % (0 - b) = 0
\* The same for words read as unsigned numbers: q * b does not carry out of
\* 32 bits, and the rest a - q * b is below b
C32_UnsignedQuotient(a, b, q) ==
    /\ mulhu(q, b) = 0
    /\ ~Ltu(a, wrapping_mul(q, b))
    /\ Ltu(wrapping_sub(a, wrapping_mul(q, b)), b)
\* 2^32 modulo b, for 0 < b <= 2^30
C32_WordModulus(b) == ((2147483647 % b) * 2 + 2) % b
\* d read as unsigned is a multiple of b read as unsigned
C32_UnsignedMultiple(d, b) ==
    IF b < 0 \/ b > 1073741824 THEN \E q \in 0 .. 3 : mulhu(q, b) = 0 /\ wrapping_mul(q, b) = d
    ELSE IF d >= 0 THEN d % b = 0
    ELSE ((d % b) + C32_WordModulus(b)) % b = 0
C32_UnsignedRemainder(a, b, r) ==
    /\ Ltu(r, b)
    /\ ~Ltu(a, r)
    /\ C32_UnsignedMultiple(wrapping_sub(a, r), b)
C32_Result(o, a, b, v) ==
    IF b = 0 THEN v = (IF o \in {"Div", "Divu"} THEN -1 ELSE a)
    ELSE IF o \in {"Div", "Rem"} /\ a = MinInt32 /\ b = -1 THEN v = (IF o = "Div" THEN a ELSE 0)
    ELSE IF o = "Div" THEN C32_TruncatedQuotient(a, b, v)
    ELSE IF o = "Rem" THEN C32_TruncatedRemainder(a, b, v)
    ELSE IF o = "Divu" THEN C32_UnsignedQuotient(a, b, v)
    ELSE C32_UnsignedRemainder(a, b, v)
C32_DivisionNeverTraps ==
    \A i \in DOMAIN hist :
        C32_IsDivision(hist[i]) =>
            /\ hist[i].ev = << >>
            /\ PostOf(i).state = Running
            /\ PostOf(i).pc = wrapping_add(hist[i].pre.pc, 4)
            /\ PostOf(i).csr = hist[i].pre.csr
            /\ hist[i].decoded.instr.rd /= 0 =>
                  C32_Result(hist[i].decoded.instr.op, C32_A(hist[i]), C32_B(hist[i]),
                             PostOf(i).x[hist[i].decoded.instr.rd])
            /\ \A r \in Regs :
                  r /= hist[i].decoded.instr.rd => PostOf(i).x[r] = hist[i].pre.x[r]

C32_Did(o, a, b, v) ==
    \E i \in DOMAIN hist :
        /\ C32_IsDivision(hist[i]) /\ hist[i].decoded.instr.op = o
        /\ hist[i].decoded.instr.rd = 3
        /\ C32_A(hist[i]) = a /\ C32_B(hist[i]) = b
        /\ hist[i].ev = << >> /\ PostOf(i).state = Running
        /\ PostOf(i).x[3] = v
\* INT_MIN / -1 = INT_MIN
C32_Witness == C32_Did("Div", MinInt32, -1, MinInt32)
C32_RemOverflow == C32_Did("Rem", MinInt32, -1, 0)
C32_DivByZero == C32_Did("Div", 7, 0, -1)
C32_DivuByZero == C32_Did("Divu", 7, 0, -1)
C32_RemByZero == C32_Did("Rem", -7, 0, -7)
C32_RemuByZero == C32_Did("Remu", -7, 0, -7)
\* -7 / 2 = -3 remainder -1
C32_Truncates == C32_Did("Div", -7, 2, -3)
C32_RemSignOfDividend == C32_Did("Rem", -7, 2, -1)
\* 0xFFFFFFF9 / 7 = 0x24924923 remainder 4
C32_UnsignedLarge == C32_Did("Divu", -7, 7, W(\h2492, \h4923))
C32_UnsignedLargeRem == C32_Did("Remu", -7, 7, 4)

(***************************************************************************)
(* C33: FMIN.S/FMAX.S: when both operands are NaN the result is the        *)
(* canonical NaN 0x7FC00000 and NV is raised; when exactly one operand is  *)
(* NaN the result is the other operand and NV is raised only if a          *)
(* signaling NaN is involved; for the operands +0 and -0 FMIN returns -0   *)
(* and FMAX returns +0.                                                    *)
(***************************************************************************)
C33_IsMinMax(r) ==
    r.op = "step" /\ r.fetched /\ r.claimed /\ r.decoded.instr.op \in {"FminS", "FmaxS"}
C33_A(r) == r.pre.f.regs[r.decoded.instr.frs1]
C33_B(r) == r.pre.f.regs[r.decoded.instr.frs2]
\* An f32 bit pattern is a NaN when its exponent is all ones and its
\* fraction is not zero, and a signaling one when the fraction's top bit is clear
C33_Exponent(bits) == (Low31(bits) \div 8388608) % 256
C33_Fraction(bits) == Low31(bits) % 8388608
C33_IsNaN(bits) == C33_Exponent(bits) = 255 /\ C33_Fraction(bits) /= 0
C33_IsSignaling(bits) == C33_IsNaN(bits) /\ C33_Fraction(bits) < 4194304
C33_Result(i) == PostOf(i).f.regs[hist[i].decoded.instr.frd]
\* NV (bit 4 of fcsr) is set after the step and was clear before it
C33_NvRaised(i) ==
    /\ (CsrBank_read(hist[i].pre.csr, CSR_FCSR) \div 16) % 2 = 0
    /\ (CsrBank_read(PostOf(i).csr, CSR_FCSR) \div 16) % 2 = 1
C33_NvWasClear(i) == (CsrBank_read(hist[i].pre.csr, CSR_FCSR) \div 16) % 2 = 0
C33_BothNaN(i) ==
    (C33_IsNaN(C33_A(hist[i])) /\ C33_IsNaN(C33_B(hist[i]))) =>
        /\ C33_Result(i) = W(\h7FC0, \h0000)
        /\ C33_NvRaised(i)
C33_OneNaN(i) ==
    /\ (C33_IsNaN(C33_A(hist[i])) /\ ~C33_IsNaN(C33_B(hist[i]))) =>
          C33_Result(i) = C33_B(hist[i])
    /\ (~C33_IsNaN(C33_A(hist[i])) /\ C33_IsNaN(C33_B(hist[i]))) =>
          C33_Result(i) = C33_A(hist[i])
    /\ (C33_IsNaN(C33_A(hist[i])) /= C33_IsNaN(C33_B(hist[i]))) =>
          (C33_NvRaised(i) <=>
              C33_IsSignaling(C33_A(hist[i])) \/ C33_IsSignaling(C33_B(hist[i])))
C33_Zeros(i) ==
    ({C33_A(hist[i]), C33_B(hist[i])} = {0, MinInt32}) =>
        C33_Result(i) = (IF hist[i].decoded.instr.op = "FminS" THEN MinInt32 ELSE 0)
C33_MinMaxSpecialCases ==
    \A i \in DOMAIN hist :
        (C33_IsMinMax(hist[i]) /\ C33_NvWasClear(i)) =>
            C33_BothNaN(i) /\ C33_OneNaN(i) /\ C33_Zeros(i)

\* FMIN.S of two quiet NaNs gave the canonical NaN and left NV clear
C33_QuietNaNsRaiseNothing ==
    \E i \in DOMAIN hist :
        /\ C33_IsMinMax(hist[i]) /\ hist[i].decoded.instr.op = "FminS"
        /\ C33_A(hist[i]) = W(\h7FC0, \h0000) /\ C33_B(hist[i]) = W(\hFFC0, \h0001)
        /\ C33_Result(i) = W(\h7FC0, \h0000)
        /\ CsrBank_read(hist[i].pre.csr, CSR_FCSR) = 0
        /\ CsrBank_read(PostOf(i).csr, CSR_FCSR) = 0

\* What holds: NV is raised exactly when an operand is a signaling NaN, and
\* the results are those stated
C33_NvOnlyForSignaling ==
    \A i \in DOMAIN hist :
        (C33_IsMinMax(hist[i]) /\ C33_NvWasClear(i)) =>
            /\ (C33_IsNaN(C33_A(hist[i])) /\ C33_IsNaN(C33_B(hist[i]))) =>
                  C33_Result(i) = W(\h7FC0, \h0000)
            /\ C33_NvRaised(i) <=>
                  C33_IsSignaling(C33_A(hist[i])) \/ C33_IsSignaling(C33_B(hist[i]))
            /\ C33_OneNaN(i) /\ C33_Zeros(i)

\* FMIN.S of a signaling and a quiet NaN gave the canonical NaN and raised NV
C33_SignalingRaises ==
    \E i \in DOMAIN hist :
        /\ C33_IsMinMax(hist[i])
        /\ C33_A(hist[i]) = W(\h7FA0, \h0000) /\ C33_B(hist[i]) = W(\h7FC0, \h0000)
        /\ C33_Result(i) = W(\h7FC0, \h0000)
        /\ C33_NvRaised(i)

(***************************************************************************)
(* C34: an F instruction whose rounding-mode field is an unsupported       *)
(* encoding (rm = 5 or 6) is refused: no FP register, integer register or  *)
(* fcsr/fflags bit changes and the step ends with CPU state                *)
(* IllegalInstruction(raw) and no trap.                                    *)
(***************************************************************************)
C34_Rounded ==
    {"FaddS", "FsubS", "FmulS", "FdivS", "FsqrtS", "FmaddS", "FmsubS", "FnmaddS", "FnmsubS",
     "FcvtWS", "FcvtWuS", "FcvtSW", "FcvtSWu"}
\* Bits 14:12 of the instruction word
C34_RmField(raw) == (raw \div 4096) % 8
C34_Word(r) ==
    W(r.pre.mem.data[r.pre.pc - r.pre.mem.base_addr + 3] * 256
          + r.pre.mem.data[r.pre.pc - r.pre.mem.base_addr + 2],
      r.pre.mem.data[r.pre.pc - r.pre.mem.base_addr + 1] * 256
          + r.pre.mem.data[r.pre.pc - r.pre.mem.base_addr])
C34_Unsupported(r) ==
    /\ r.op = "step" /\ r.fetched
    /\ r.decoded.instr.op \in C34_Rounded
    /\ C34_RmField(C34_Word(r)) \in {5, 6}
C34_UnsupportedRmRefused ==
    \A i \in DOMAIN hist :
        C34_Unsupported(hist[i]) =>
            /\ ~hist[i].claimed
            /\ hist[i].ev = << >>
            /\ PostOf(i).f = hist[i].pre.f
            /\ PostOf(i).x = hist[i].pre.x
            /\ PostOf(i).csr = hist[i].pre.csr
            /\ PostOf(i).mem = hist[i].pre.mem
            /\ PostOf(i).privilege = hist[i].pre.privilege
            /\ PostOf(i).state = <<"IllegalInstruction", C34_Word(hist[i])>>

C34_Refused(o, raw) ==
    \E i \in DOMAIN hist :
        /\ C34_Unsupported(hist[i]) /\ hist[i].decoded.instr.op = o
        /\ hist[i].pre.state = <<"Running">>
        /\ state = <<"IllegalInstruction", raw>>
        /\ i = Len(hist)
\* FADD.S f3, f1, f2 with rm = 5, from a core whose fcsr holds frm = 5 and NX
C34_Witness ==
    /\ C34_Refused("FaddS", W(\h0020, \hD1D3))
    /\ CsrBank_read(csr, CSR_FCSR) = \hA1
    /\ f.regs[3] = 0
C34_RefusedRm6 == C34_Refused("FaddS", W(\h0020, \hE1D3))
C34_RefusedConversion == C34_Refused("FcvtWS", W(\hC000, \hD153))
C34_RefusedSqrt == C34_Refused("FsqrtS", W(\h5800, \hE1D3))
C34_RefusedFused == C34_Refused("FmaddS", W(\h0820, \hE1C3))

(***************************************************************************)
(* C35: SLLI, SRLI and SRAI are decoded only when all 7 bits of funct7     *)
(* match (0000000 for SLLI/SRLI, 0100000 for SRAI); an OP-IMM word with    *)
(* funct3 001 or 101 and any other funct7 value decodes to Illegal.        *)
(***************************************************************************)
C35_Opcode(raw) == raw % 128
C35_Funct3(raw) == (raw \div 4096) % 8
C35_Funct7(raw) == (raw \div 33554432) % 128
C35_IsShiftWord(r) ==
    /\ r.op = "step" /\ r.fetched
    /\ C35_Opcode(r.decoded.raw) = 19
    /\ C35_Funct3(r.decoded.raw) \in {1, 5}
C35_Expected(raw) ==
    IF C35_Funct3(raw) = 1 /\ C35_Funct7(raw) = 0 THEN "Slli"
    ELSE IF C35_Funct3(raw) = 5 /\ C35_Funct7(raw) = 0 THEN "Srli"
    ELSE IF C35_Funct3(raw) = 5 /\ C35_Funct7(raw) = 32 THEN "Srai"
    ELSE "Illegal"
C35_ShiftsNeedFunct7 ==
    \A i \in DOMAIN hist :
        C35_IsShiftWord(hist[i]) => hist[i].decoded.instr.op = C35_Expected(hist[i].decoded.raw)

\* The word 0x03F09113 (funct7 = 0000001, funct3 = 001) was decoded as SLLI
\* and executed: x2 = x1 << 31
C35_Bit25Ignored ==
    \E i \in DOMAIN hist :
        /\ C35_IsShiftWord(hist[i])
        /\ hist[i].decoded.raw = W(\h03F0, \h9113)
        /\ C35_Funct7(hist[i].decoded.raw) = 1
        /\ hist[i].decoded.instr.op = "Slli"
        /\ hist[i].claimed
        /\ hist[i].pre.x[1] = 33
        /\ PostOf(i).x[2] = MinInt32

(***************************************************************************)
(* C36: exception flags raised by F instructions accumulate (are OR-ed in  *)
(* and never cleared by an F instruction) and are observable both as CSR   *)
(* fflags (0x001) and as the low 5 bits of fcsr (0x003): after any         *)
(* sequence of steps, reading fflags returns fcsr[4:0] and reading frm     *)
(* returns fcsr[7:5].                                                      *)
(***************************************************************************)
C36_FOps ==
    {"Flw", "Fsw", "FaddS", "FsubS", "FmulS", "FdivS", "FsqrtS", "FmaddS", "FmsubS", "FnmaddS",
     "FnmsubS", "FsgnjS", "FsgnjnS", "FsgnjxS", "FminS", "FmaxS", "FeqS", "FltS", "FleS",
     "FclassS", "FcvtWS", "FcvtWuS", "FcvtSW", "FcvtSWu", "FmvXW", "FmvWX"}
C36_IsFStep(r) == r.op = "step" /\ r.fetched /\ r.decoded.instr.op \in C36_FOps
C36_Fcsr(v) == CsrBank_read(v.csr, 3)
C36_FlagBit(w, k) == (w \div Pow2(k)) % 2
\* The flags of fcsr after an F instruction include those before it
C36_Accumulates(i) ==
    \A k \in 0 .. 4 : C36_FlagBit(C36_Fcsr(hist[i].pre), k) <= C36_FlagBit(C36_Fcsr(PostOf(i)), k)
\* A step that reads a CSR into rd without writing it: CSRRS rd, csr, x0
C36_Reads(r, addr) ==
    /\ r.op = "step" /\ r.fetched /\ r.claimed
    /\ r.decoded.instr.op = "Csrrs" /\ r.decoded.instr.rs1 = 0 /\ r.decoded.instr.rd /= 0
    /\ r.decoded.instr.csr = addr
C36_ReadValue(i) == PostOf(i).x[hist[i].decoded.instr.rd]
C36_FlagsAccumulateAndAlias ==
    \A i \in DOMAIN hist :
        /\ C36_IsFStep(hist[i]) => C36_Accumulates(i)
        /\ C36_Reads(hist[i], 1) => C36_ReadValue(i) = C36_Fcsr(hist[i].pre) % 32
        /\ C36_Reads(hist[i], 2) => C36_ReadValue(i) = (C36_Fcsr(hist[i].pre) \div 32) % 8

\* On a core whose fcsr was 0, FMIN.S on the signaling NaN 0x7FA00000 raised
\* NV (fcsr = 0x10) and the read of fflags that followed returned 0
C36_RaisedFlagsNotInFflags ==
    /\ Len(hist) = 2
    /\ C36_IsFStep(hist[1]) /\ hist[1].decoded.instr.op = "FminS"
    /\ hist[1].pre.f.regs[2] = W(\h7FA0, \h0000)
    /\ C36_Fcsr(hist[1].pre) = 0
    /\ C36_Fcsr(hist[2].pre) = 16
    /\ C36_Reads(hist[2], 1)
    /\ x[2] = 0
    /\ CsrBank_read(csr, 3) = 16

\* The rounding mode of fcsr = 0xA1 is 5 and the read of frm returned 0
C36_FrmNotInFcsr ==
    \E i \in DOMAIN hist :
        /\ C36_Reads(hist[i], 2)
        /\ C36_Fcsr(hist[i].pre) = \hA1
        /\ C36_ReadValue(i) = 0

\* What holds: the flags of fcsr only grow through F instructions, which
\* leave its other bits and the CSRs fflags and frm alone, and a read of
\* fcsr returns it
C36_FcsrAccumulates ==
    \A i \in DOMAIN hist :
        /\ C36_IsFStep(hist[i]) =>
              /\ C36_Accumulates(i)
              /\ C36_Fcsr(PostOf(i)) \div 32 = C36_Fcsr(hist[i].pre) \div 32
              /\ CsrBank_read(PostOf(i).csr, 1) = CsrBank_read(hist[i].pre.csr, 1)
              /\ CsrBank_read(PostOf(i).csr, 2) = CsrBank_read(hist[i].pre.csr, 2)
        /\ C36_Reads(hist[i], 3) => C36_ReadValue(i) = C36_Fcsr(hist[i].pre)

\* FMAX.S on a signaling NaN added NV to the OF and NX that FADD.S had raised
C36_SecondInstructionAdds ==
    /\ Len(hist) = 2
    /\ C36_IsFStep(hist[1]) /\ C36_IsFStep(hist[2])
    /\ C36_Fcsr(hist[1].pre) = 0 /\ C36_Fcsr(hist[2].pre) = 5
    /\ CsrBank_read(csr, 3) = 21

(***************************************************************************)
(* C37: a store instruction (SB/SH/SW) that takes a trap leaves every      *)
(* memory byte unchanged, including a misaligned SH or SW whose first      *)
(* bytes lie inside the memory region and whose later bytes lie outside it.*)
(***************************************************************************)
C37_IsStore(r) ==
    r.op = "step" /\ r.fetched /\ r.claimed /\ r.decoded.instr.op \in {"Sb", "Sh", "Sw"}
C37_Trapped(r) == Len(r.ev) = 1 /\ r.ev[1].cause \in {"StoreAccessFault", "StoreAddressMisaligned"}
C37_Changed(i) ==
    { k \in DOMAIN hist[i].pre.mem.data : PostOf(i).mem.data[k] /= hist[i].pre.mem.data[k] }
C37_TrappingStoreWritesNothing ==
    \A i \in DOMAIN hist :
        C37_IsStore(hist[i]) /\ C37_Trapped(hist[i]) => PostOf(i).mem = hist[i].pre.mem

\* A misaligned SW two bytes before the end of the region trapped with the
\* first address outside in tval, and the two bytes inside hold the low half
\* of rs2
C37_SplitStoreTore ==
    \E i \in DOMAIN hist :
        /\ C37_IsStore(hist[i]) /\ C37_Trapped(hist[i])
        /\ hist[i].decoded.instr.op = "Sw"
        /\ C12_Addr(hist[i]) = wrapping_add(hist[i].pre.mem.base_addr, MemSize - 2)
        /\ hist[i].ev[1].tval = wrapping_add(hist[i].pre.mem.base_addr, MemSize)
        /\ C37_Changed(i) = {MemSize - 2, MemSize - 1}
        /\ Let([v \in {RegFile_read(hist[i].pre.x, hist[i].decoded.instr.rs2)} |->
               /\ PostOf(i).mem.data[MemSize - 2] = v % 256
               /\ PostOf(i).mem.data[MemSize - 1] = (v \div 256) % 256])

\* A misaligned SH on the last byte of the region wrote that byte and trapped
C37_SplitHalfTore ==
    \E i \in DOMAIN hist :
        /\ C37_IsStore(hist[i]) /\ C37_Trapped(hist[i])
        /\ hist[i].decoded.instr.op = "Sh"
        /\ C37_Changed(i) = {MemSize - 1}

\* What holds: a trapping store changes no byte unless it is a misaligned SH
\* or SW that starts inside the region, and then only bytes of its own range
\* below the faulting address
C37_OnlySplitStoresTear ==
    \A i \in DOMAIN hist :
        C37_IsStore(hist[i]) /\ C37_Trapped(hist[i]) =>
            /\ PostOf(i).mem.base_addr = hist[i].pre.mem.base_addr
            /\ \A k \in C37_Changed(i) :
                  /\ hist[i].decoded.instr.op \in {"Sh", "Sw"}
                  /\ C12_Addr(hist[i]) % C12_Size(hist[i].decoded.instr.op) /= 0
                  /\ \E j \in 0 .. C12_Size(hist[i].decoded.instr.op) - 2 :
                        /\ wrapping_add(hist[i].pre.mem.base_addr, k) = wrapping_add(C12_Addr(hist[i]), j)
                        /\ \E d \in 1 .. 3 :
                              hist[i].ev[1].tval = wrapping_add(C12_Addr(hist[i]), j + d)

(***************************************************************************)
(* C38: for every combination of enabled in-tree extensions and every word,*)
(* the opcode-bucketed DecoderRegistry::decode gives the same result as    *)
(* searching all enabled instruction tables without regard to opcode       *)
(* buckets, and that result does not depend on the order in which the      *)
(* extension decoders were registered.                                     *)
(***************************************************************************)
C38_Illegal(raw) == [raw |-> raw, instr |-> [op |-> "Illegal", raw |-> raw]]
\* The entries that match raw, <<k, i>> for entry i of the table of decoder k
C38_Hits(decoders, raw) ==
    { h \in UNION { {k} \X (1 .. Len(decoders[k].instrs)) : k \in 1 .. Len(decoders) } :
        matches(decoders[h[1]].instrs[h[2]], raw) }
\* The search of the tables, one after the other in the order rank gives the
\* decoders, buckets ignored: the first entry of the first table with a match
C38_Before(rank, h, g) == rank[h[1]] < rank[g[1]] \/ (h[1] = g[1] /\ h[2] <= g[2])
C38_Search(decoders, hits, rank, raw) ==
    IF hits = {} THEN C38_Illegal(raw)
    ELSE Let([h \in {CHOOSE h \in hits : \A g \in hits : C38_Before(rank, h, g)} |->
             decode_instr(decoders[h[1]].instrs[h[2]], raw)])
\* The order of registration, and the order of IsaConfig::build
C38_Registered(decoders) == [k \in 1 .. Len(decoders) |-> k]
C38_BuildRank(name) ==
    CASE name = "RV32I" -> 1 [] name = "RV32M" -> 2 [] name = "RV32F" -> 3
      [] name = "Zicsr" -> 4 [] name = "Priv" -> 5
C38_InBuildOrder(decoders) == [k \in 1 .. Len(decoders) |-> C38_BuildRank(decoders[k].name)]
C38_IsDecode(r) == r.op = "decode_built"
C38_Transparent(r) ==
    Let([hits \in {C38_Hits(registry.decoders, r.raw)} |->
        /\ r.ret = C38_Search(registry.decoders, hits, C38_Registered(registry.decoders), r.raw)
        /\ r.ret = C38_Search(registry.decoders, hits, C38_InBuildOrder(registry.decoders), r.raw)])
C38_BucketsAreTransparent ==
    \A i \in DOMAIN hist : C38_IsDecode(hist[i]) => C38_Transparent(hist[i])

C38_Bucket(r) == registry.opcode_map[BitAnd(r.raw, \h7F)]
\* A registry whose decoders the host registered in another order than
\* IsaConfig::build decoded a word of a bucket that holds three decoders,
\* the first of which has no entry for it
C38_Witness ==
    \E i \in DOMAIN hist :
        /\ C38_IsDecode(hist[i])
        /\ hist[i].how.op = "register_in_tree"
        /\ \E j, k \in DOMAIN registry.decoders :
              j < k /\ C38_InBuildOrder(registry.decoders)[j] > C38_InBuildOrder(registry.decoders)[k]
        /\ Len(C38_Bucket(hist[i])) = 3
        /\ FirstMatch(registry.decoders[C38_Bucket(hist[i])[1] + 1].instrs, hist[i].raw) = 0
        /\ hist[i].ret.instr.op /= "Illegal"

\* A registry of IsaConfig::build with every extension decoded MRET
C38_BuiltDecode ==
    \E i \in DOMAIN hist :
        /\ C38_IsDecode(hist[i])
        /\ hist[i].how.op = "build"
        /\ hist[i].how.exts = InTreeExtensions
        /\ hist[i].raw = MRET_ENCODING
        /\ hist[i].ret.instr.op = "Mret"

\* A word no enabled table has an entry for is Illegal: MUL without RV32M
C38_NotEnabled ==
    \E i \in DOMAIN hist :
        /\ C38_IsDecode(hist[i])
        /\ RV32M_DECODER \notin SeqElems(registry.decoders)
        /\ RV32I_DECODER \in SeqElems(registry.decoders)
        /\ hist[i].raw = W(\h0200, \h0033)
        /\ hist[i].ret = C38_Illegal(hist[i].raw)

\* Why the bounded check carries to every word: every entry of an in-tree
\* table fixes all seven opcode bits to an opcode its decoder lists, and no
\* two entries of different extensions have a word in common
C38_EntriesListed ==
    \A d \in InTreeDecoders : \A i \in 1 .. Len(d.instrs) :
        /\ BitAnd(d.instrs[i].mask, \h7F) = \h7F
        /\ BitAnd(d.instrs[i].match_val, \h7F) \in SeqElems(d.opcodes.v)
C38_TablesSeparate ==
    hist = << >> => C38_EntriesListed /\ detect_conflicts(InTreeExtensions) = {}

(***************************************************************************)
(* C39: for every conflict-free combination of enabled extensions,         *)
(* IsaConfig::build_unchecked produces a registry holding the same         *)
(* decoders in the same order as IsaConfig::build, so the two registries   *)
(* decode every word identically.                                          *)
(***************************************************************************)
C39_ConflictFree(exts) == detect_conflicts(exts) = {}
C39_SameDecoders(r) ==
    r.op = "build_unchecked" /\ C39_ConflictFree(r.exts) =>
        registry.decoders = IsaConfig_build(r.exts).decoders
C39_SameDecode(r) ==
    (/\ r.op = "decode_built"
     /\ r.how.op = "build_unchecked"
     /\ C39_ConflictFree(r.how.exts)) =>
        r.ret = Registry_decode(IsaConfig_build(r.how.exts), r.raw)
C39_UncheckedSameAsBuild ==
    \A i \in DOMAIN hist : C39_SameDecoders(hist[i]) /\ C39_SameDecode(hist[i])

\* The registry of build_unchecked for {Priv} holds RV32I alone and decoded
\* MRET as Illegal, where the registry of build decodes it as Mret
C39_PrivLeftOut ==
    \E i \in DOMAIN hist :
        /\ hist[i].op = "decode_built"
        /\ hist[i].how.op = "build_unchecked"
        /\ hist[i].how.exts = {"Priv"}
        /\ C39_ConflictFree(hist[i].how.exts)
        /\ registry.decoders = << RV32I_DECODER >>
        /\ IsaConfig_build({"Priv"}).decoders = << RV32I_DECODER, PRIV_DECODER >>
        /\ hist[i].raw = MRET_ENCODING
        /\ hist[i].ret.instr.op = "Illegal"
        /\ Registry_decode(IsaConfig_build({"Priv"}), MRET_ENCODING).instr.op = "Mret"

\* What holds: the two registries are the same when Priv is not enabled
C39_SameWithoutPriv ==
    \A i \in DOMAIN hist :
        /\ (hist[i].op = "build_unchecked" /\ "Priv" \notin hist[i].exts) =>
              registry = IsaConfig_build(hist[i].exts)
        /\ (/\ hist[i].op = "decode_built"
            /\ hist[i].how.op = "build_unchecked"
            /\ "Priv" \notin hist[i].how.exts) =>
              hist[i].ret = Registry_decode(IsaConfig_build(hist[i].how.exts), hist[i].raw)

\* build_unchecked of {M, F, Zicsr} gave the registry of build
C39_SameRegistryReached ==
    /\ hist /= << >>
    /\ hist[1].op = "build_unchecked"
    /\ hist[1].exts = {"M", "F", "Zicsr"}
    /\ registry = IsaConfig_build({"M", "F", "Zicsr"})
    /\ Len(registry.decoders) = 4

====
